---- MODULE Spec2Model ----
(***************************************************************************)
(* Scoring model of the ecotopia evaluation scripts.                       *)
(*                                                                         *)
(*   training/evaluate_models.py   word_overlap, match_promises,           *)
(*                                 match_contradictions                    *)
(*   eval_extraction.py            evaluate_response                       *)
(*   training/eval_difficulty.py   evaluate_example                        *)
(*   training/run_weave_evals.py   ExtractionScorer.score                  *)
(*   run_weave_evals.py            ExtractionScorer.score (top-level copy) *)
(*   training/bedrock_data_gen.py  extract_json_from_text                  *)
(*   training/eval_difficulty.py   parse_json_safe, evaluate_model         *)
(*   eval_extraction.py            eval_mistral_large, avg_metrics         *)
(*   run_consolidated_evals.py     evaluate_on_set                         *)
(*   training/full_benchmark.py    evaluate_extraction                     *)
(*   api/server.py                 process_turn, submit_speech,            *)
(*                                 generate_speech                         *)
(*   api/tts.py                    text_to_speech                          *)
(*                                                                         *)
(* Conventions.  A Python str is a sequence of one-character strings.      *)
(* A float that the code obtains as len(x) / len(y) is kept as the exact   *)
(* fraction [num, den]; IEEE division is correctly rounded, so two such    *)
(* quotients compare as the fractions do, and the literals 0.8 and 0.5     *)
(* are the doubles of 4/5 and 1/2.  List indices are 1-based here, so the  *)
(* source's best_idx = -1 ("none") is 0.  A dict key that is absent is     *)
(* Absent in a field; a present value v is Some(v).                        *)
(***************************************************************************)
EXTENDS Integers, Sequences, FiniteSets, TLC

(***************************************************************************)
(* Bounds of the model.                                                    *)
(***************************************************************************)
MaxPred == 2
MaxExp == 2
MaxStrLen == 3
MaxBatch == 3
\* longest list of typed promises given to the type-precision variants
MaxTypes == 3
\* largest max_retries given to run_inference
MaxRetries == 3
\* largest max_retries given to call_mistral
MaxMistralRetries == 5
\* longest promise list given to fix_deadlines
MaxDeadlines == 2

(***************************************************************************)
(* Strings.                                                                *)
(***************************************************************************)
\* a dict field: the key is absent, or holds a value
Absent == <<>>
Some(v) == <<v>>

\* dict.get(key, default)
Get(field, default) == IF field = Absent THEN default ELSE field[1]

\* the newline character
NL == "\n"

\* str.isspace() on the characters the inputs use
IsSpace(c) == c = " " \/ c = NL

\* str.lower() on the characters the inputs use
LowerChar(c) ==
    IF c = "A" THEN "a"
    ELSE IF c = "B" THEN "b"
    ELSE IF c = "H" THEN "h"
    ELSE c

Lower(s) == [i \in 1..Len(s) |-> LowerChar(s[i])]

RECURSIVE LStrip(_)
LStrip(s) ==
    IF s = <<>> THEN <<>>
    ELSE IF IsSpace(Head(s)) THEN LStrip(Tail(s))
    ELSE s

RECURSIVE RStrip(_)
RStrip(s) ==
    IF s = <<>> THEN <<>>
    ELSE IF IsSpace(s[Len(s)]) THEN RStrip(SubSeq(s, 1, Len(s) - 1))
    ELSE s

\* str.strip()
Strip(s) == RStrip(LStrip(s))

\* str.split() with no separator: the maximal runs of non-whitespace
RECURSIVE SplitFrom(_, _, _)
SplitFrom(s, i, cur) ==
    IF i > Len(s)
    THEN (IF cur = <<>> THEN <<>> ELSE <<cur>>)
    ELSE IF IsSpace(s[i])
    THEN (IF cur = <<>>
          THEN SplitFrom(s, i + 1, <<>>)
          ELSE <<cur>> \o SplitFrom(s, i + 1, <<>>))
    ELSE SplitFrom(s, i + 1, Append(cur, s[i]))

Split(s) == SplitFrom(s, 1, <<>>)

\* set(list)
SetOf(seq) == {seq[i] : i \in 1..Len(seq)}

\* dict.get(key, "")
GetStr(field) == Get(field, <<>>)

Min(x, y) == IF x <= y THEN x ELSE y

(***************************************************************************)
(* Fractions standing for the floats of the source.                        *)
(***************************************************************************)
Frac(n, d) == [num |-> n, den |-> d]
Zero == Frac(0, 1)
One == Frac(1, 1)
FracGT(x, y) == x.num * y.den > y.num * x.den
FracGE(x, y) == x.num * y.den >= y.num * x.den
FracEQ(x, y) == x.num * y.den = y.num * x.den

PROMISE_THRESHOLD == Frac(4, 5)
CONTRADICTION_THRESHOLD == Frac(1, 2)

(***************************************************************************)
(* Input texts.                                                            *)
(***************************************************************************)
SP == <<" ">>
W_build == <<"b", "u", "i", "l", "d">>
W_solar == <<"s", "o", "l", "a", "r">>
W_panels == <<"p", "a", "n", "e", "l", "s">>
W_farms == <<"f", "a", "r", "m", "s">>

T_blank == <<" ">>
T_Build == <<" ", "B", "u", "i", "l", "d", " ">>
T_Ab == <<"A", " ", "b">>
T_axy == <<"a", " ", "x", " ", "y">>
T_abcde == <<"A", " ", "b", " ", "c", " ", " ", "d", " ", "e">>
T_abcdf == <<"a", " ", "b", " ", "c", " ", "d", " ", "f">>
T_panels == W_build \o SP \o W_solar \o SP \o W_panels
T_farms == W_build \o SP \o W_solar \o SP \o W_farms

TextPool == {T_blank, T_Build, T_Ab, T_axy, T_abcde, T_abcdf, T_panels, T_farms}

\* set(s.lower().strip().split()), computed
SplitWords(s) == SetOf(Split(Strip(Lower(s))))

\* the same set for the pool texts, computed once
PoolWords == [t \in TextPool |-> SplitWords(t)]

\* set(a.lower().strip().split())
Words(s) == IF s \in TextPool THEN PoolWords[s] ELSE SplitWords(s)

(***************************************************************************)
(* word_overlap                                                            *)
(***************************************************************************)
\* a true Jaccard index: the intersection over the union
word_overlap_jaccard(a, b) ==
    LET words_a == Words(a)
        words_b == Words(b)
    IN  IF words_a = {} \/ words_b = {}
        THEN Zero
        ELSE Frac(Cardinality(words_a \cap words_b), Cardinality(words_a \cup words_b))

\* the intersection over the size of the first set
word_overlap_first(a, b) ==
    LET words_a == Words(a)
        words_b == Words(b)
    IN  IF words_a = {} \/ words_b = {}
        THEN Zero
        ELSE Frac(Cardinality(words_a \cap words_b), Cardinality(words_a))

word_overlap(a, b) ==
    LET words_a == Words(a)
        words_b == Words(b)
        intersection == words_a \cap words_b
        smaller == Min(Cardinality(words_a), Cardinality(words_b))
    IN  IF words_a = {} \/ words_b = {}
        THEN Zero
        ELSE IF smaller > 0 THEN Frac(Cardinality(intersection), smaller) ELSE Zero

OverlapAlphabet == {"a", "A", "b", " "}

\* every string over the alphabet of length at most n
RECURSIVE Strings(_)
Strings(n) ==
    IF n = 0 THEN {<<>>}
    ELSE LET shorter == Strings(n - 1)
         IN  shorter \cup {Append(s, c) : s \in shorter, c \in OverlapAlphabet}

OverlapInputs == Strings(MaxStrLen) \cup TextPool

(***************************************************************************)
(* Input promises and contradictions.  Confidence is in tenths.            *)
(***************************************************************************)
S_high == <<"h", "i", "g", "h">>
S_High == <<"H", "i", "g", "h", " ">>
S_medium == <<"m", "e", "d", "i", "u", "m">>

Promise(text, type, confidence) ==
    [text |-> Some(text), type |-> Some(type), confidence |-> Some(confidence)]

\* a promise dict with no key at all
EmptyPromise == [text |-> Absent, type |-> Absent, confidence |-> Absent]

P_panels == Promise(T_panels, "ecology", 8)
P_farms == Promise(T_farms, "ecology", 6)
P_Build == [Promise(T_Build, "economy", 5) EXCEPT !.confidence = Absent]
P_blank == Promise(T_blank, "research", 5)
P_abcde == Promise(T_abcde, "research", 7)
P_abcdf == Promise(T_abcdf, "economy", 9)

\* the promise lists of one call are drawn from one of these pools
PromisePools ==
    { {P_panels, P_farms, P_Build, P_blank},
      {P_abcde, P_abcdf, P_Build, EmptyPromise} }

Contradiction(severity, description) ==
    [severity |-> Some(severity), description |-> Some(description)]

K_High_Ab == Contradiction(S_High, T_Ab)
K_medium_Ab == Contradiction(S_medium, T_Ab)
K_high_axy == Contradiction(S_high, T_axy)
K_high_abcde == Contradiction(S_high, T_abcde)
K_nosev_Ab == [Contradiction(S_high, T_Ab) EXCEPT !.severity = Absent]
K_medium_nodesc == [Contradiction(S_medium, T_Ab) EXCEPT !.description = Absent]

\* the contradiction lists of one call are drawn from one of these pools
ContradictionPools ==
    { {K_High_Ab, K_medium_Ab, K_high_axy, K_high_abcde},
      {K_High_Ab, K_medium_Ab, K_nosev_Ab, K_medium_nodesc} }

\* every list over pool of length at most n
RECURSIVE Lists(_, _)
Lists(pool, n) ==
    IF n = 0 THEN {<<>>}
    ELSE LET shorter == Lists(pool, n - 1)
         IN  shorter \cup {Append(l, x) : l \in shorter, x \in pool}

(***************************************************************************)
(* EvalResult: the counters match_promises and match_contradictions        *)
(* update in place.                                                        *)
(***************************************************************************)
EvalResult(ptp, pfp, pfn, ctp, cfp, cfn, errs) ==
    [promise_tp |-> ptp, promise_fp |-> pfp, promise_fn |-> pfn,
     contradiction_tp |-> ctp, contradiction_fp |-> cfp, contradiction_fn |-> cfn,
     confidence_errors |-> errs,
     total_examples |-> 0, valid_json_count |-> 0,
     latencies |-> <<>>, predictions |-> <<>>]

\* EvalResult(model_id=...)
NewEvalResult == EvalResult(0, 0, 0, 0, 0, 0, <<>>)

\* the result object as the caller hands it over: fresh, or already holding
\* the counts of earlier examples
ResultPool == {NewEvalResult, EvalResult(2, 1, 3, 1, 2, 1, <<4>>)}

Abs(x) == IF x < 0 THEN -x ELSE x

\* dict.get("confidence", 0.5)
GetConfidence(p) == Get(p.confidence, 5)

(***************************************************************************)
(* match_promises: the inner loop over expected.                           *)
(***************************************************************************)
NoBest == [idx |-> 0, overlap |-> Zero]

\* the check `if i in matched_expected: continue` left out
Offered_all(expected_, matched) == 1..Len(expected_)

\* the expected indices that pass `if i in matched_expected: continue`
Offered(expected_, matched) == {i \in 1..Len(expected_) : i \notin matched}

RECURSIVE ScanExpectedPromises(_, _, _, _, _)
ScanExpectedPromises(pred_text, expected_, matched, i, best) ==
    IF i > Len(expected_) THEN best
    ELSE IF i \notin Offered(expected_, matched)
    THEN ScanExpectedPromises(pred_text, expected_, matched, i + 1, best)
    ELSE LET overlap == word_overlap(pred_text, GetStr(expected_[i].text))
         IN  IF FracGT(overlap, best.overlap)
             THEN ScanExpectedPromises(pred_text, expected_, matched, i + 1,
                                       [idx |-> i, overlap |-> overlap])
             ELSE ScanExpectedPromises(pred_text, expected_, matched, i + 1, best)

BestPromise(pred, expected_, matched) ==
    ScanExpectedPromises(GetStr(pred.text), expected_, matched, 1, NoBest)

\* the threshold taken strictly
PromiseMatches_strict(best) == FracGT(best.overlap, PROMISE_THRESHOLD) /\ best.idx >= 1

\* if best_overlap >= 0.8 and best_idx >= 0
PromiseMatches(best) == FracGE(best.overlap, PROMISE_THRESHOLD) /\ best.idx >= 1

(***************************************************************************)
(* match_contradictions: the inner loop over expected.                     *)
(***************************************************************************)
\* x.get("severity", "").lower().strip()
SeverityOf(c) == Strip(Lower(GetStr(c.severity)))

\* the severity gate left out
SameSeverity_any(pred_sev, exp_sev) == TRUE

\* the gate `if pred_sev != exp_sev: continue` lets equal severities through
SameSeverity(pred_sev, exp_sev) == pred_sev = exp_sev

RECURSIVE ScanExpectedContradictions(_, _, _, _, _, _)
ScanExpectedContradictions(pred_sev, pred_desc, expected_, matched, i, best) ==
    IF i > Len(expected_) THEN best
    ELSE IF i \notin Offered(expected_, matched)
    THEN ScanExpectedContradictions(pred_sev, pred_desc, expected_, matched, i + 1, best)
    ELSE IF ~SameSeverity(pred_sev, SeverityOf(expected_[i]))
    THEN ScanExpectedContradictions(pred_sev, pred_desc, expected_, matched, i + 1, best)
    ELSE LET overlap == word_overlap(pred_desc, GetStr(expected_[i].description))
         IN  IF FracGT(overlap, best.overlap)
             THEN ScanExpectedContradictions(pred_sev, pred_desc, expected_, matched,
                                             i + 1, [idx |-> i, overlap |-> overlap])
             ELSE ScanExpectedContradictions(pred_sev, pred_desc, expected_, matched,
                                             i + 1, best)

BestContradiction(pred, expected_, matched) ==
    ScanExpectedContradictions(SeverityOf(pred), GetStr(pred.description),
                               expected_, matched, 1, NoBest)

\* the promise threshold used for contradictions
ContradictionMatches_promise(best) ==
    FracGE(best.overlap, PROMISE_THRESHOLD) /\ best.idx >= 1

\* if best_score >= 0.5 and best_idx >= 0
ContradictionMatches(best) ==
    FracGE(best.overlap, CONTRADICTION_THRESHOLD) /\ best.idx >= 1

\* the matched entries not subtracted
Unmatched_all(expected_, matched) == Len(expected_)

\* result.promise_fn += len(expected) - len(matched_expected)
Unmatched(expected_, matched) == Len(expected_) - Cardinality(matched)

(***************************************************************************)
(* The extraction scorers.  A call returns a value or raises.              *)
(***************************************************************************)
Return(v) == [raised |-> "", value |-> Some(v)]
Raise(e) == [raised |-> e, value |-> Absent]
\* no call has been made
NoCall == [raised |-> "", value |-> Absent]

\* an extraction output: {"promises": [...], "contradictions": [...]}
Extraction(promises, contradictions) ==
    [promises |-> promises, contradictions |-> contradictions]

\* Python's order on the type strings that occur ("" is the default of get)
TypeRank(t) ==
    CASE t = "" -> 0
      [] t = "ecology" -> 1
      [] t = "economy" -> 2
      [] t = "research" -> 3

RECURSIVE Insert(_, _)
Insert(sorted, t) ==
    IF sorted = <<>> THEN <<t>>
    ELSE IF TypeRank(t) < TypeRank(Head(sorted)) THEN <<t>> \o sorted
    ELSE <<Head(sorted)>> \o Insert(Tail(sorted), t)

\* the types in the order of the list
Sorted_unsorted(types) == types

\* sorted(list of type strings)
RECURSIVE Sorted(_)
Sorted(types) ==
    IF types = <<>> THEN <<>>
    ELSE Insert(Sorted(SubSeq(types, 1, Len(types) - 1)), types[Len(types)])

\* [p.get("type", "") for p in promises]
GetTypes(promises) == [i \in 1..Len(promises) |-> Get(promises[i].type, "")]

\* the last pair of the zip left out
ZipMatches_short(xs, ys) ==
    Cardinality({i \in 1..(Min(Len(xs), Len(ys)) - 1) : xs[i] = ys[i]})

\* sum(1 for x, y in zip(xs, ys) if x == y)
ZipMatches(xs, ys) ==
    Cardinality({i \in 1..Min(Len(xs), Len(ys)) : xs[i] = ys[i]})

\* xs[:n]
Prefix(xs, n) == SubSeq(xs, 1, Min(n, Len(xs)))

Bit(cond) == IF cond THEN 1 ELSE 0

\* eval_extraction.evaluate_response; response is the json.loads outcome of
\* response_text: Absent when it raises JSONDecodeError
evaluate_response(response, expected_) ==
    IF response = Absent
    THEN Return([valid_json |-> 0, promise_count_match |-> 0,
                 type_precision |-> Zero, contradiction_detection |-> 0])
    ELSE LET parsed == response[1]
             expected_promises == expected_.promises
             parsed_promises == parsed.promises
             expected_types == GetTypes(expected_promises)
             parsed_types == GetTypes(Prefix(parsed_promises, Len(expected_types)))
             matches == ZipMatches(expected_types, parsed_types)
             expected_contradictions == expected_.contradictions
             parsed_contradictions == parsed.contradictions
         IN  IF \E i \in 1..Len(expected_promises) : expected_promises[i].type = Absent
             THEN Raise("KeyError")
             ELSE Return(
                 [valid_json |-> 1,
                  promise_count_match |->
                      Bit(Len(parsed_promises) = Len(expected_promises)),
                  type_precision |->
                      IF expected_promises # <<>>
                      THEN Frac(matches, Len(expected_types))
                      ELSE One,
                  contradiction_detection |->
                      Bit((Len(expected_contradictions) > 0)
                          = (Len(parsed_contradictions) > 0))])

\* evaluate_example with the test of the empty-expected branch inverted
evaluate_example_inverted(predicted_, expected_) ==
    IF predicted_ = Absent
    THEN Return([valid_json |-> 0, promise_count |-> 0,
                 type_precision |-> Zero, contradiction |-> 0])
    ELSE LET exp_promises == expected_.promises
             pred_promises == predicted_[1].promises
             matches == ZipMatches(Sorted(GetTypes(exp_promises)),
                                   Sorted(GetTypes(pred_promises)))
         IN  Return(
                 [valid_json |-> 1,
                  promise_count |-> Bit(Len(pred_promises) = Len(exp_promises)),
                  type_precision |->
                      IF exp_promises = <<>>
                      THEN (IF pred_promises # <<>> THEN One ELSE Zero)
                      ELSE Frac(matches, Len(exp_promises)),
                  contradiction |->
                      Bit((Len(expected_.contradictions) > 0)
                          = (Len(predicted_[1].contradictions) > 0))])

\* eval_difficulty.evaluate_example; predicted is Absent for None
evaluate_example(predicted_, expected_) ==
    IF predicted_ = Absent
    THEN Return([valid_json |-> 0, promise_count |-> 0,
                 type_precision |-> Zero, contradiction |-> 0])
    ELSE LET exp_promises == expected_.promises
             pred_promises == predicted_[1].promises
             exp_contradictions == expected_.contradictions
             pred_contradictions == predicted_[1].contradictions
             exp_types == Sorted(GetTypes(exp_promises))
             pred_types == Sorted(GetTypes(pred_promises))
             matches == ZipMatches(exp_types, pred_types)
             has_exp == Len(exp_contradictions) > 0
             has_pred == Len(pred_contradictions) > 0
         IN  Return(
                 [valid_json |-> 1,
                  promise_count |-> Bit(Len(pred_promises) = Len(exp_promises)),
                  type_precision |->
                      IF exp_promises = <<>>
                      THEN (IF pred_promises = <<>> THEN One ELSE Zero)
                      ELSE Frac(matches, Len(exp_types)),
                  contradiction |-> Bit(has_exp = has_pred)])

\* training/run_weave_evals.ExtractionScorer.score; output and expected_ are
\* the json.loads outcomes of output["response"] and of expected
ExtractionScorer_score(output, expected_) ==
    IF output = Absent
    THEN Return([json_valid |-> FALSE, promise_count_match |-> FALSE,
                 type_precision |-> Zero, contradiction_detection |-> FALSE])
    ELSE IF expected_ = Absent
    THEN Return([json_valid |-> TRUE, promise_count_match |-> FALSE,
                 type_precision |-> Zero, contradiction_detection |-> FALSE])
    ELSE LET pred == output[1]
             exp == expected_[1]
             pred_promises == pred.promises
             exp_promises == exp.promises
             pred_types == Sorted(GetTypes(pred_promises))
             exp_types == Sorted(GetTypes(exp_promises))
             matches == ZipMatches(pred_types, exp_types)
         IN  Return(
                 [json_valid |-> TRUE,
                  promise_count_match |-> Len(pred_promises) = Len(exp_promises),
                  type_precision |->
                      IF exp_promises # <<>>
                      THEN Frac(matches, Len(exp_types))
                      ELSE One,
                  contradiction_detection |->
                      (Len(pred.contradictions) > 0) = (Len(exp.contradictions) > 0)])

\* run_weave_evals.ExtractionScorer.score (the copy at the top of src);
\* output and expected_ are the json.loads outcomes of output["response"]
\* and of expected
TopExtractionScorer_score(output, expected_) ==
    IF output = Absent
    THEN Return([json_valid |-> FALSE])
    ELSE IF expected_ = Absent
    THEN Return([json_valid |-> TRUE, promise_count_match |-> FALSE,
                 type_precision |-> Zero, contradiction_detection |-> FALSE])
    ELSE LET pred == output[1]
             exp == expected_[1]
             pred_types == Sorted(GetTypes(pred.promises))
             exp_types == Sorted(GetTypes(exp.promises))
             matches == ZipMatches(pred_types, exp_types)
         IN  Return(
                 [json_valid |-> TRUE,
                  promise_count_match |-> Len(pred.promises) = Len(exp.promises),
                  type_precision |->
                      IF exp_types # <<>>
                      THEN Frac(matches, Len(exp_types))
                      ELSE One,
                  contradiction_detection |->
                      (Len(pred.contradictions) > 0) = (Len(exp.contradictions) > 0)])

(***************************************************************************)
(* The structured-output parsers.                                          *)
(*                                                                         *)
(* json.loads is modelled on the texts the model feeds it: strings over    *)
(* BraceAlphabet, in which the only JSON value that can be written is the  *)
(* empty object, and the texts built from DOC_ecology.  It accepts         *)
(* surrounding whitespace, as json.loads does.  Absent stands for          *)
(* JSONDecodeError.  The dict {} is Extraction(<<>>, <<>>): the scorers    *)
(* read both keys with get(key, []).                                       *)
(***************************************************************************)
\* the backquote character, written as an accent the inputs do not use
\* otherwise (a TLA+ string cannot hold a backquote)
BQ == "^"
\* the markdown fence: three backquotes
FENCE == <<BQ, BQ, BQ>>
JSON_TAG == <<"j", "s", "o", "n">>
T_not_json == <<"n", "o", "t", " ", "j", "s", "o", "n">>
T_sure == <<"S", "u", "r", "e", ":", " ">>

\* {"promises":[{"type":"ecology"}]}
DOC_ecology ==
    <<"{", "\"", "p", "r", "o", "m", "i", "s", "e", "s", "\"", ":", "[", "{",
      "\"", "t", "y", "p", "e", "\"", ":", "\"", "e", "c", "o", "l", "o", "g",
      "y", "\"", "}", "]", "}">>
\* the dict DOC_ecology denotes
D_ecology ==
    Extraction(<<[text |-> Absent, type |-> Some("ecology"), confidence |-> Absent]>>,
               <<>>)

\* {"promises":[{"type":"ecology"}],"contradictions":[{"severity":"high"}]}
DOC_conflict ==
    SubSeq(DOC_ecology, 1, Len(DOC_ecology) - 1) \o
    <<",", "\"", "c", "o", "n", "t", "r", "a", "d", "i", "c", "t", "i", "o", "n",
      "s", "\"", ":", "[", "{", "\"", "s", "e", "v", "e", "r", "i", "t", "y",
      "\"", ":", "\"", "h", "i", "g", "h", "\"", "}", "]", "}">>
\* the dict DOC_conflict denotes
D_conflict ==
    Extraction(D_ecology.promises,
               <<[severity |-> Some(S_high), description |-> Absent]>>)

\* the JSON text null, and the None it denotes
T_null == <<"n", "u", "l", "l">>
None == [none |-> TRUE]

NonSpace(s) == SelectSeq(s, LAMBDA c : ~IsSpace(c))

\* a loader that takes every text without a document for the empty object
json_loads_lenient(s) ==
    IF Strip(s) = DOC_ecology THEN Some(D_ecology)
    ELSE Some(Extraction(<<>>, <<>>))

json_loads(s) ==
    IF NonSpace(s) = <<"{", "}">> THEN Some(Extraction(<<>>, <<>>))
    ELSE IF Strip(s) = DOC_ecology THEN Some(D_ecology)
    ELSE IF Strip(s) = DOC_conflict THEN Some(D_conflict)
    ELSE IF Strip(s) = T_null THEN Some(None)
    ELSE Absent

\* str.startswith
StartsWith(s, prefix) ==
    Len(s) >= Len(prefix) /\ SubSeq(s, 1, Len(prefix)) = prefix

\* str.find(sub, from) with 1-based positions: 0 when sub does not occur
Find(s, sub, from) ==
    LET hits == {i \in from..(Len(s) - Len(sub) + 1) :
                    SubSeq(s, i, i + Len(sub) - 1) = sub}
    IN  IF hits = {} THEN 0 ELSE CHOOSE i \in hits : \A j \in hits : i <= j

\* str.rfind(sub)
RFind(s, sub) ==
    LET hits == {i \in 1..(Len(s) - Len(sub) + 1) :
                    SubSeq(s, i, i + Len(sub) - 1) = sub}
    IN  IF hits = {} THEN 0 ELSE CHOOSE i \in hits : \A j \in hits : i >= j

\* str.split("\n")
RECURSIVE SplitLines(_)
SplitLines(s) ==
    LET i == Find(s, <<NL>>, 1)
    IN  IF i = 0 THEN <<s>>
        ELSE <<SubSeq(s, 1, i - 1)>> \o SplitLines(SubSeq(s, i + 1, Len(s)))

\* "\n".join(lines)
RECURSIVE JoinLines(_)
JoinLines(lines) ==
    IF lines = <<>> THEN <<>>
    ELSE IF Len(lines) = 1 THEN lines[1]
    ELSE lines[1] \o <<NL>> \o JoinLines(Tail(lines))

\* eval_difficulty.parse_json_safe: Absent is None
parse_json_safe(text_) ==
    LET stripped == Strip(text_)
        lines == SelectSeq(SplitLines(stripped),
                           LAMBDA l : ~StartsWith(Strip(l), FENCE))
        body == IF StartsWith(stripped, FENCE)
                THEN Strip(JoinLines(lines))
                ELSE stripped
    IN  json_loads(body)

\* the first position from i on that holds no whitespace
RECURSIVE SkipSpace(_, _)
SkipSpace(s, i) ==
    IF i <= Len(s) /\ IsSpace(s[i]) THEN SkipSpace(s, i + 1) ELSE i

\* re.search(FENCE (?:json)? \s* \n? (.*?) \n? FENCE, text, re.DOTALL): group 1
\* of the leftmost match, Absent when nothing matches.  The match starts at the
\* first fence that has a fence after it; the optional tag and the greedy
\* \s* never have to give anything back, because the lazy group accepts any
\* text up to the next fence.
FencedBlock(s) ==
    LET open == Find(s, FENCE, 1)
        after_open == open + Len(FENCE)
        after_tag ==
            IF /\ after_open + Len(JSON_TAG) - 1 <= Len(s)
               /\ SubSeq(s, after_open, after_open + Len(JSON_TAG) - 1) = JSON_TAG
            THEN after_open + Len(JSON_TAG)
            ELSE after_open
        first == SkipSpace(s, after_tag)
        close == Find(s, FENCE, first)
        last == IF close > first /\ s[close - 1] = NL THEN close - 2 ELSE close - 1
    IN  IF open = 0 \/ close = 0 THEN Absent ELSE Some(SubSeq(s, first, last))

\* run_weave_evals.strip_markdown_json: re.match anchors the fence pattern at
\* the start of the stripped text
strip_markdown_json(text_) ==
    LET stripped == Strip(text_)
        m == IF StartsWith(stripped, FENCE) THEN FencedBlock(stripped) ELSE Absent
    IN  IF m # Absent THEN Strip(m[1]) ELSE stripped

\* json.loads(candidate) with no handler around it
LoadOrRaise(candidate) ==
    IF json_loads(candidate) # Absent
    THEN Return(json_loads(candidate)[1])
    ELSE Raise("JSONDecodeError")

\* bedrock_data_gen.extract_json_from_text
extract_json_from_text(text_) ==
    LET stripped == Strip(text_)
        match == FencedBlock(stripped)
        start == Find(stripped, <<"{">>, 1)
        end == RFind(stripped, <<"}">>)
    IN  IF json_loads(stripped) # Absent THEN Return(json_loads(stripped)[1])
        ELSE IF match # Absent THEN LoadOrRaise(Strip(match[1]))
        ELSE IF start # 0 /\ end # 0 THEN LoadOrRaise(SubSeq(stripped, start, end))
        ELSE Raise("JSONDecodeError")

\* the response texts the parsers are given
ResponsePool ==
    { <<>>,
      T_not_json,
      <<" ", "{", "}", NL>>,
      DOC_ecology,
      FENCE \o JSON_TAG \o <<NL>> \o DOC_ecology \o <<NL>> \o FENCE,
      FENCE \o <<NL, "{", " ", "}", NL>> \o FENCE,
      FENCE \o DOC_ecology \o FENCE,
      FENCE \o <<NL>> \o DOC_ecology \o <<NL>> \o FENCE,
      FENCE \o JSON_TAG \o <<NL>> \o T_not_json \o <<NL>> \o FENCE,
      T_sure \o DOC_ecology \o <<" ", "o", "k">>,
      T_sure \o FENCE \o JSON_TAG \o <<NL>> \o DOC_ecology \o <<NL>> \o FENCE,
      T_sure \o <<"{">> \o T_not_json \o <<"}">>,
      FENCE \o JSON_TAG \o <<NL>> \o DOC_ecology }

BraceAlphabet == {"{", "}", BQ, NL, "x"}

\* every string over BraceAlphabet of length at most n
RECURSIVE BraceStrings(_)
BraceStrings(n) ==
    IF n = 0 THEN {<<>>}
    ELSE LET shorter == BraceStrings(n - 1)
         IN  shorter \cup {Append(s, c) : s \in shorter, c \in BraceAlphabet}

ParserInputs == ResponsePool \cup BraceStrings(MaxStrLen)

(***************************************************************************)
(* The batch evaluation loops and their aggregation.                       *)
(*                                                                         *)
(* An example of a batch is the outcome of the model call on it (api is    *)
(* "error" when the call raises, in evaluate_models.run_inference on every *)
(* attempt), the content of the response, the latency measured and the     *)
(* expected output of its assistant message.  The means are exact          *)
(* fractions.  The token counters of EvalResult are left out.              *)
(***************************************************************************)
Example(api, content, latency, expected_) ==
    [api |-> api, content |-> content, latency |-> latency, expected |-> expected_]

E_one == Extraction(<<P_panels>>, <<K_High_Ab>>)
E_two == Extraction(<<P_panels, P_Build>>, <<>>)

X_error == Example("error", <<>>, 3, E_one)
X_not_json == Example("ok", T_not_json, 1, E_two)
X_full == Example("ok", DOC_ecology, 2, E_one)
X_half == Example("ok", DOC_ecology, 1, E_two)
X_fenced == Example("ok", FENCE \o JSON_TAG \o <<NL>> \o DOC_ecology \o <<NL>> \o FENCE,
                    1, E_one)
X_empty == Example("ok", <<"{", "}">>, 1, E_one)

ExamplePool == {X_error, X_not_json, X_full, X_half, X_fenced, X_empty}

DIFFICULTIES == <<"easy", "medium", "hard">>
METRIC_NAMES ==
    {"valid_json", "promise_count_match", "type_precision",
     "contradiction_detection", "latency_ms"}

\* the dict {}
EmptyDict == Extraction(<<>>, <<>>)

FracAdd(x, y) == Frac(x.num * y.den + y.num * x.den, x.den * y.den)

\* a metric value as a fraction: type_precision is one already
Value(card, key) ==
    IF key = "type_precision" THEN card[key] ELSE Frac(card[key], 1)

\* [m[key] for m in items]
Column(items, key) == [i \in 1..Len(items) |-> Value(items[i], key)]

\* sum(values)
RECURSIVE Sum(_)
Sum(values) ==
    IF values = <<>> THEN Zero ELSE FracAdd(Head(values), Sum(Tail(values)))

\* the sum not divided
Mean_sum(values) == Sum(values)

\* sum(values) / len(values), for a non-empty list
Mean(values) == Frac(Sum(values).num, Sum(values).den * Len(values))

\* x * 100
Percent(x) == Frac(x.num * 100, x.den)

\* round(x, 1)
Round1(x) == Frac((20 * x.num + x.den) \div (2 * x.den), 10)

\* the lists of test_data: records cut at the sizes of the difficulty lists
RECURSIVE Groups(_, _)
Groups(records, sizes_) ==
    IF sizes_ = <<>> THEN <<>>
    ELSE <<SubSeq(records, 1, Head(sizes_))>>
         \o Groups(SubSeq(records, Head(sizes_) + 1, Len(records)), Tail(sizes_))

\* all_metrics.extend(items), for every list
RECURSIVE Extend(_)
Extend(lists) ==
    IF lists = <<>> THEN <<>> ELSE Head(lists) \o Extend(Tail(lists))

\* [key -> mean of the key over items]
Averages(items) == [key \in METRIC_NAMES |-> Mean(Column(items, key))]

\* eval_extraction.avg_metrics: results_by_diff holds one list per
\* difficulty; the first division by len(items) = 0 raises
avg_metrics(results_by_diff) ==
    IF \/ \E g \in 1..Len(results_by_diff) : results_by_diff[g] = <<>>
       \/ Extend(results_by_diff) = <<>>
    THEN Raise("ZeroDivisionError")
    ELSE Return([by_diff |-> [g \in 1..Len(results_by_diff) |->
                                 Averages(results_by_diff[g])],
                 overall |-> Averages(Extend(results_by_diff))])

\* eval_mistral_large, lines 84-107: the body of the inner loop
eval_mistral_large_body(ex) ==
    LET response_text == IF ex.api = "error" THEN <<>> ELSE ex.content
        metrics == evaluate_response(json_loads(response_text), ex.expected)
    IN  IF metrics.raised # "" THEN metrics
        ELSE Return([valid_json |-> metrics.value[1].valid_json,
                     promise_count_match |-> metrics.value[1].promise_count_match,
                     type_precision |-> metrics.value[1].type_precision,
                     contradiction_detection |->
                         metrics.value[1].contradiction_detection,
                     latency_ms |-> ex.latency])

\* eval_difficulty.evaluate_model, lines 88-105: the body of the loop
eval_difficulty_body(ex) ==
    IF ex.api = "error" THEN Raise("APIError")
    ELSE evaluate_example(parse_json_safe(ex.content), ex.expected)

SCORE_KEYS == {"valid_json", "promise_count", "type_precision", "contradiction"}

\* eval_difficulty.evaluate_model, line 107
eval_difficulty_return(scores) ==
    IF scores = <<>> THEN Raise("ZeroDivisionError")
    ELSE Return([k \in SCORE_KEYS |-> Percent(Mean(Column(scores, k)))])

\* match_promises as one call: the loop over predicted, then the statement
\* after it
RECURSIVE ScanPredictedPromises(_, _, _, _, _)
ScanPredictedPromises(predicted_, expected_, k, result_, matched) ==
    IF k > Len(predicted_)
    THEN [result_ EXCEPT !.promise_fn = @ + Unmatched(expected_, matched)]
    ELSE LET best == BestPromise(predicted_[k], expected_, matched)
         IN  IF PromiseMatches(best)
             THEN ScanPredictedPromises(predicted_, expected_, k + 1,
                     [result_ EXCEPT
                         !.promise_tp = @ + 1,
                         !.confidence_errors =
                            Append(@, Abs(GetConfidence(predicted_[k])
                                          - GetConfidence(expected_[best.idx])))],
                     matched \cup {best.idx})
             ELSE ScanPredictedPromises(predicted_, expected_, k + 1,
                     [result_ EXCEPT !.promise_fp = @ + 1], matched)

match_promises(predicted_, expected_, result_) ==
    ScanPredictedPromises(predicted_, expected_, 1, result_, {})

RECURSIVE ScanPredictedContradictions(_, _, _, _, _)
ScanPredictedContradictions(predicted_, expected_, k, result_, matched) ==
    IF k > Len(predicted_)
    THEN [result_ EXCEPT !.contradiction_fn = @ + Unmatched(expected_, matched)]
    ELSE LET best == BestContradiction(predicted_[k], expected_, matched)
         IN  IF ContradictionMatches(best)
             THEN ScanPredictedContradictions(predicted_, expected_, k + 1,
                     [result_ EXCEPT !.contradiction_tp = @ + 1],
                     matched \cup {best.idx})
             ELSE ScanPredictedContradictions(predicted_, expected_, k + 1,
                     [result_ EXCEPT !.contradiction_fp = @ + 1], matched)

match_contradictions(predicted_, expected_, result_) ==
    ScanPredictedContradictions(predicted_, expected_, 1, result_, {})

\* evaluate_models.evaluate_model, lines 326-376: the body of the loop for
\* example number i (counted from 0); run_inference returns "" and latency 0
\* when every attempt failed
evaluate_model_body(ex, i, result_) ==
    LET response_text == IF ex.api = "error" THEN <<>> ELSE ex.content
        latency == IF ex.api = "error" THEN 0 ELSE ex.latency
        parsed == IF response_text # <<>> THEN json_loads(response_text) ELSE Absent
        predicted_ == IF parsed = Absent THEN EmptyDict ELSE parsed[1]
        counted == [result_ EXCEPT
                       !.total_examples = @ + 1,
                       !.latencies = Append(@, latency),
                       !.valid_json_count = IF parsed # Absent THEN @ + 1 ELSE @]
        promises_done ==
            match_promises(predicted_.promises, ex.expected.promises, counted)
        all_done ==
            match_contradictions(predicted_.contradictions,
                                 ex.expected.contradictions, promises_done)
    IN  [all_done EXCEPT
            !.predictions =
                Append(@, [index |-> i, expected |-> ex.expected,
                           predicted |-> predicted_,
                           valid_json |-> predicted_ # EmptyDict,
                           latency |-> latency])]

\* run_consolidated_evals.evaluate_on_set, lines 30-57: the body of the loop;
\* any exception of the try block leaves the counters as they are
evaluate_on_set_body(ex, results) ==
    LET pred == json_loads(ex.content)
        exp == ex.expected
    IN  IF ex.api = "error" \/ pred = Absent THEN results
        ELSE [results EXCEPT
                 !.valid_json = @ + 1,
                 !.promise_count =
                     @ + Bit(Len(pred[1].promises) = Len(exp.promises)),
                 !.type_precision =
                     @ + Bit(SetOf(GetTypes(pred[1].promises))
                             = SetOf(GetTypes(exp.promises))),
                 !.contradiction =
                     @ + Bit((Len(pred[1].contradictions) > 0)
                             = (Len(exp.contradictions) > 0))]

\* evaluate_on_set, lines 59-60
evaluate_on_set_return(results) ==
    IF results.total = 0 THEN Raise("ZeroDivisionError")
    ELSE Return([promise_count |-> Round1(Frac(results.promise_count * 100, results.total)),
                 type_precision |-> Round1(Frac(results.type_precision * 100, results.total)),
                 contradiction |-> Round1(Frac(results.contradiction * 100, results.total)),
                 valid_json |-> Round1(Frac(results.valid_json * 100, results.total)),
                 total |-> results.total])

\* full_benchmark.evaluate_extraction, lines 28-90: the body of the loop
evaluate_extraction_body(ex, results) ==
    LET pred == json_loads(ex.content)
        exp == ex.expected
        timed == [results EXCEPT !.latencies = Append(@, ex.latency)]
    IN  IF ex.api = "error" THEN [results EXCEPT !.errors = @ + 1]
        ELSE IF pred = Absent THEN timed
        ELSE [timed EXCEPT
                 !.valid_json = @ + 1,
                 !.promise_count_correct =
                     @ + Bit(Len(pred[1].promises) = Len(exp.promises)),
                 !.type_precision =
                     @ + Bit(SetOf(GetTypes(pred[1].promises))
                             = SetOf(GetTypes(exp.promises))),
                 !.contradiction_correct =
                     @ + Bit((Len(pred[1].contradictions) > 0)
                             = (Len(exp.contradictions) > 0))]

\* evaluate_extraction, lines 92-100: x / total * 100 if total else 0
PercentOrZero(count, total) ==
    IF total # 0 THEN Frac(count * 100, total) ELSE Zero

evaluate_extraction_return(results) ==
    Return([counters |-> results,
            promise_count_pct |->
                PercentOrZero(results.promise_count_correct, results.total),
            type_precision_pct |->
                PercentOrZero(results.type_precision, results.total),
            contradiction_pct |->
                PercentOrZero(results.contradiction_correct, results.total),
            valid_json_pct |-> PercentOrZero(results.valid_json, results.total),
            avg_latency |->
                IF results.latencies # <<>>
                THEN Mean([i \in 1..Len(results.latencies) |->
                              Frac(results.latencies[i], 1)])
                ELSE Zero])

(***************************************************************************)
(* api/server.py: the turn pipeline behind POST /api/game/speech.          *)
(*                                                                         *)
(* The handler is a coroutine that never awaits, so one request is served  *)
(* at a time.  A response of a model call is the exception it raised or    *)
(* the message content it carried: Some(text), or Absent for None.  A dict *)
(* the server reads keeps which of its keys are present: a field is Absent *)
(* or Some(value).                                                         *)
(***************************************************************************)
\* the keys of the object json.loads(s) returns
JsonKeys(s) ==
    IF Strip(s) = DOC_ecology THEN {"promises"}
    ELSE IF Strip(s) = DOC_conflict THEN {"promises", "contradictions"}
    ELSE {}

\* the value json.loads(s) returns, an object with its keys
JsonValue(s) ==
    LET v == json_loads(s)[1]
    IN  IF v = None THEN None
        ELSE [promises |-> IF "promises" \in JsonKeys(s)
                           THEN Some(v.promises) ELSE Absent,
              contradictions |-> IF "contradictions" \in JsonKeys(s)
                                 THEN Some(v.contradictions) ELSE Absent,
              raw |-> Absent]

\* {"promises": [], "contradictions": [], "raw": content}
ExtractionFallback(content) ==
    [promises |-> Some(<<>>), contradictions |-> Some(<<>>), raw |-> Some(content)]

\* {"reactions": [], "dynamic_citizens": [], "raw": content}
ReactionsFallback(content) ==
    [reactions |-> Some(<<>>), dynamic_citizens |-> Some(<<>>),
     raw |-> Some(content)]

\* a response of client.chat.complete
ChatResponse(api, content) == [api |-> api, content |-> content]

\* extract_promises(speech, game_context), given the response of the model:
\* the call, response.choices[0].message.content, json.loads and the
\* JSONDecodeError handler
extract_promises(response) ==
    IF response.api = "error" THEN Raise("APIError")
    ELSE IF response.content = Absent THEN Raise("TypeError")
    ELSE IF json_loads(response.content[1]) = Absent
         THEN Return(ExtractionFallback(response.content[1]))
    ELSE Return(JsonValue(response.content[1]))

\* generate_reactions(promises, contradictions, game_context), given the
\* response of the model
generate_reactions(response) ==
    IF response.api = "error" THEN Raise("APIError")
    ELSE IF response.content = Absent THEN Raise("TypeError")
    ELSE IF json_loads(response.content[1]) = Absent
         THEN Return(ReactionsFallback(response.content[1]))
    ELSE Return(JsonValue(response.content[1]))

\* dict.get(key, []) on what json.loads returned: None has no get
DictGet(field) == IF field = Absent THEN <<>> ELSE field[1]

\* json.dumps(game_state, indent=2)
json_dumps(game_state) ==
    IF game_state.round = Absent THEN <<"{", "}">>
    ELSE <<"{", NL, " ", " ", "\"", "r", "o", "u", "n", "d", "\"", ":", " ">>
         \o game_state.round[1] \o <<NL, "}">>

\* the call with promises and contradictions exchanged
ReactionCall_swapped(extraction_, game_context) ==
    [promises |-> DictGet(extraction_.contradictions),
     contradictions |-> DictGet(extraction_.promises),
     game_context |-> game_context]

\* the arguments process_turn calls generate_reactions with
ReactionCall(extraction_, game_context) ==
    [promises |-> DictGet(extraction_.promises),
     contradictions |-> DictGet(extraction_.contradictions),
     game_context |-> game_context]

SpeechRequest(speech, game_state) == [speech |-> speech, game_state |-> game_state]

HTTPResponse(status, body) == [status |-> status, body |-> body]

\* the contents the extraction model answers with in the model
ExtractionContents ==
    { Some(t) : t \in { <<>>, T_not_json, <<"{", "}">>, DOC_ecology, DOC_conflict,
                        T_null, FENCE \o DOC_ecology \o FENCE } }
    \cup {Absent}

\* the contents the citizens model answers with in the model
ReactionContents == { Some(T_not_json), Some(<<"{", "}">>), Absent }

SpeechRequests ==
    { SpeechRequest(sp, gs) :
        sp \in {T_panels, T_farms},
        gs \in {[round |-> Absent], [round |-> Some(<<"3">>)]} }

(***************************************************************************)
(* api/tts.py and POST /api/tts.                                           *)
(*                                                                         *)
(* text_hash is the first 12 hex digits of the md5 of the key string       *)
(* f"{citizen_name}:{text}"; the digest is taken as injective and a hash   *)
(* is named by the key string it digests.  The TTS service answers a post  *)
(* with audio ("ok"), with a non-2xx status ("status_error"), or the post  *)
(* itself fails ("transport_error").                                       *)
(***************************************************************************)
N_Bob == <<"B", "o", "b", " ", "I", "n", "d", "u", "s", "t", "r", "i", "a", "l">>
N_a == <<"a">>
N_a_b == <<"a", ":", "b">>
T_c == <<"c">>
T_b_c == <<"b", ":", "c">>

\* the citizen names and the texts of the requests in the model
CitizenNames == {N_Bob, N_a, N_a_b}
SpokenTexts == {T_c, T_b_c}

VOICE_Martha == "21m00Tcm4TlvDq8ikWAM"
VOICE_Bob == "29vD33N1CtxCmqQRPOHJ"

\* CITIZEN_VOICES.get(citizen_name, CITIZEN_VOICES["default"])
get_voice_id(citizen_name) ==
    IF citizen_name = N_Bob THEN VOICE_Bob ELSE VOICE_Martha

\* f"{citizen_name}:{text}"
KeyString(citizen_name, text_) == citizen_name \o <<":">> \o text_

\* hashlib.md5(key.encode()).hexdigest()[:12]
text_hash(citizen_name, text_) == KeyString(citizen_name, text_)

\* f"{output_dir}/{text_hash}.mp3" with output_dir = "audio"
output_path(citizen_name, text_) ==
    [dir |-> "audio", name |-> text_hash(citizen_name, text_), ext |-> "mp3"]

\* the paths the requests of the model resolve to
CachePaths == { output_path(n, t) : n \in CitizenNames, t \in SpokenTexts }

ServiceOutcomes == {"ok", "status_error", "transport_error"}

TtsResult(outcome, files_, posted) ==
    [outcome |-> outcome, files |-> files_, requested |-> posted]

\* a text_to_speech that looks the file up before it looks at the key
text_to_speech_cache_first(text_, citizen_name, key, files_, service) ==
    LET path == output_path(citizen_name, text_)
    IN  IF path \in files_ THEN TtsResult(Return(path), files_, FALSE)
        ELSE IF key = "" THEN TtsResult(Raise("ValueError"), files_, FALSE)
        ELSE IF service = "transport_error"
             THEN TtsResult(Raise("TransportError"), files_, TRUE)
        ELSE IF service = "status_error"
             THEN TtsResult(Raise("HTTPStatusError"), files_, TRUE)
        ELSE TtsResult(Return(path), files_ \cup {path}, TRUE)

\* a text_to_speech that writes response.content before raise_for_status
text_to_speech_write_first(text_, citizen_name, key, files_, service) ==
    LET path == output_path(citizen_name, text_)
    IN  IF key = "" THEN TtsResult(Raise("ValueError"), files_, FALSE)
        ELSE IF path \in files_ THEN TtsResult(Return(path), files_, FALSE)
        ELSE IF service = "transport_error"
             THEN TtsResult(Raise("TransportError"), files_, TRUE)
        ELSE IF service = "status_error"
             THEN TtsResult(Raise("HTTPStatusError"), files_ \cup {path}, TRUE)
        ELSE TtsResult(Return(path), files_ \cup {path}, TRUE)

\* text_to_speech(text, citizen_name) with ELEVENLABS_API_KEY = key, the
\* existing files files_ and the outcome of the post, if one is made
text_to_speech(text_, citizen_name, key, files_, service) ==
    LET path == output_path(citizen_name, text_)
    IN  IF key = "" THEN TtsResult(Raise("ValueError"), files_, FALSE)
        ELSE IF path \in files_ THEN TtsResult(Return(path), files_, FALSE)
        ELSE IF service = "transport_error"
             THEN TtsResult(Raise("TransportError"), files_, TRUE)
        ELSE IF service = "status_error"
             THEN TtsResult(Raise("HTTPStatusError"), files_, TRUE)
        ELSE TtsResult(Return(path), files_ \cup {path}, TRUE)

TTSRequest(citizen_name, text_) == [citizen_name |-> citizen_name, text |-> text_]

\* generate_speech: FileResponse(path), or the HTTPException of the handler
\* that catches what text_to_speech raised
generate_speech(outcome) ==
    IF outcome.raised = "" THEN HTTPResponse(200, outcome.value)
    ELSE IF outcome.raised = "ValueError" THEN HTTPResponse(400, Absent)
    ELSE HTTPResponse(500, Absent)

(***************************************************************************)
(* evaluate_models.run_inference(client, model_id, messages, max_retries)  *)
(***************************************************************************)
\* (response_text, latency_seconds, input_tokens, output_tokens)
Inference(response_text, latency, input_tokens, output_tokens) ==
    [response_text |-> response_text, latency |-> latency,
     input_tokens |-> input_tokens, output_tokens |-> output_tokens]

\* return "", 0.0, 0, 0
EmptyInference == Inference(<<>>, 0, 0, 0)

\* what a successful call gives: the content (None and "" both give ""),
\* the latency measured and the token counts of usage
SuccessfulInferences ==
    { Inference(c, 2, 5, 7) : c \in {<<>>, T_not_json, DOC_ecology} }

\* a loop that runs once more than range(max_retries)
MayAttempt_inclusive(made, max_) == made <= max_

\* for attempt in range(max_retries): another iteration starts
MayAttempt(made, max_) == made < max_

\* wait = 2 ** (attempt + 1), attempt counted from 0
RetryWait(attempt) == 2 ^ (attempt + 1)

(***************************************************************************)
(* bedrock_data_gen.call_mistral(client, prompt, max_retries)              *)
(***************************************************************************)
\* wait = (attempt + 1) * 5, attempt counted from 0
call_mistral_wait(attempt) == (attempt + 1) * 5

\* the contents a successful invoke_model call carries in the model
MistralContents == {<<>>, T_not_json, DOC_ecology}

(***************************************************************************)
(* bedrock_data_gen.fix_deadlines(data).  A promise is read and written    *)
(* through its deadline key only; data is its promises key: Absent when    *)
(* the key is missing, else Some(list).                                    *)
(***************************************************************************)
\* the keys of mapping, the names the mapping gives them, and "immediate"
LEGACY_DEADLINES == {"short_term", "medium_term", "long_term"}
ROUND_DEADLINES == {"immediate", "by_round_3", "by_round_5", "by_end_of_game"}

\* mapping[deadline]
DeadlineMapping(deadline) ==
    CASE deadline = "short_term" -> "by_round_3"
      [] deadline = "medium_term" -> "by_round_5"
      [] deadline = "long_term" -> "by_end_of_game"

\* the body of the loop for one promise
FixPromise(promise) ==
    IF Get(promise.deadline, "") \in LEGACY_DEADLINES
    THEN [promise EXCEPT !.deadline = Some(DeadlineMapping(promise.deadline[1]))]
    ELSE promise

fix_deadlines(data) ==
    IF data = Absent THEN data
    ELSE Some([i \in 1..Len(data[1]) |-> FixPromise(data[1][i])])

\* the deadline values of the inputs: the seven known names, two others and
\* a missing key
DeadlineValues ==
    {Some(v) : v \in LEGACY_DEADLINES \cup ROUND_DEADLINES \cup {"", "next_year"}}
    \cup {Absent}

DeadlineInputs ==
    {Absent} \cup
    {Some(l) : l \in Lists({[deadline |-> v] : v \in DeadlineValues}, MaxDeadlines)}

(***************************************************************************)
(* The matchers on a predicted list and on the same entries in another     *)
(* order.                                                                  *)
(***************************************************************************)
T_e == <<"e">>
P_e == Promise(T_e, "research", 5)
K_high_abcdf == Contradiction(S_high, T_abcdf)
K_high_e == Contradiction(S_high, T_e)

\* the entries of the lists that are matched in two orders
OrderPromises == {P_abcde, P_abcdf, P_e, P_Build}
OrderContradictions == {K_high_abcde, K_high_abcdf, K_high_e, K_medium_Ab}

\* the orders of a list of n entries
Orders(n) == {q \in [1..n -> 1..n] : \A i, j \in 1..n : q[i] = q[j] => i = j}

\* the entries of list in the order q
Reordered(list, q) == [i \in 1..Len(list) |-> list[q[i]]]

(***************************************************************************)
(* State.                                                                  *)
(***************************************************************************)
VARIABLES
    pc,                \* where the running call stands
    op,                \* the function that was called
    predicted,         \* its first argument
    expected,          \* its second argument
    result,            \* the EvalResult the matchers update in place
    result0,           \* result as it was when the call started
    matched_expected,  \* the local set of consumed expected indices
    pos,               \* how many entries of predicted the scan has processed
    pairing,           \* per processed predicted entry: the expected index it
                       \* consumed, 0 when it was counted as a false positive
    offered,           \* the expected indices the last inner loop compared
    scorecard,         \* what a scorer call returned
    arg_a, arg_b,      \* the arguments of a word_overlap call
    ret_overlap,       \* and what it returned
    text,              \* the argument of a parser call
    ret_parse,         \* and how the call ended
    loop,              \* the batch function that is running
    loop_pc,           \* where it stands
    examples,          \* the examples of its batch, in the order visited
    sizes,             \* eval_mistral_large: the lengths of the lists of
                       \* test_data, one per difficulty
    visited,           \* how many examples the loop has started on
    acc,               \* what the loop has accumulated: diff_results,
                       \* scores, result or results
    ret,               \* how the batch function ended
    averages,          \* how avg_metrics ended on what it returned
    rescored,          \* the scoring call is a second call on the same pair
    first,             \* what the first call on the pair gave
    turn_pc,           \* where the POST /api/game/speech request stands
    turn_req,          \* the request: speech and game_state
    extraction,        \* what extract_promises returned
    reaction_args,     \* the arguments generate_reactions was called with
    calls,             \* the model calls of the request, in order
    turn_response,     \* the answer of the endpoint
    tts_pc,            \* whether api.tts has been imported
    api_key,           \* ELEVENLABS_API_KEY
    files,             \* the audio files that exist
    tts_req,           \* the last POST /api/tts request
    tts_ret,           \* how text_to_speech ended on it
    requested,         \* whether that call posted to the TTS service
    tts_response,      \* the answer of the endpoint
    succeeded,         \* the requests text_to_speech has returned a path for
    written,           \* the files text_to_speech wrote, each with its request
    inf_pc,            \* where the run_inference call of an example stands
    max_retries,       \* its max_retries argument
    attempts,          \* the model calls it has made
    waits,             \* the seconds it has slept, in order
    inf_ret,           \* what it returned
    inf_expected,      \* the expected output of the example
    inf_result0,       \* the EvalResult before the example
    inf_result,        \* the EvalResult after the example
    cm_pc,             \* where the call_mistral call stands
    cm_max,            \* its max_retries argument
    cm_attempts,       \* the invoke_model calls it has made
    cm_waits,          \* the seconds it has slept, in order
    cm_ret,            \* how it ended
    fd_data,           \* the dict given to fix_deadlines
    fd_once,           \* fix_deadlines(data)
    fd_twice,          \* fix_deadlines(fix_deadlines(data))
    ord_op,            \* the matcher called on a list and on a reordering of it
    ord_predicted,     \* the predicted list
    ord_permuted,      \* the same entries in another order
    ord_expected,      \* the expected list of both calls
    ord_result,        \* the fresh result after the call on ord_predicted
    ord_permuted_result \* the fresh result after the call on ord_permuted

vars == <<pc, op, predicted, expected, result, result0, matched_expected, pos,
          pairing, offered, scorecard, arg_a, arg_b, ret_overlap,
          text, ret_parse, loop, loop_pc, examples, sizes, visited, acc, ret,
          averages, rescored, first, turn_pc, turn_req, extraction,
          reaction_args, calls, turn_response, tts_pc, api_key, files, tts_req,
          tts_ret, requested, tts_response, succeeded, written, inf_pc, max_retries, attempts,
          waits, inf_ret, inf_expected, inf_result0, inf_result, cm_pc, cm_max,
          cm_attempts, cm_waits, cm_ret, fd_data, fd_once, fd_twice, ord_op,
          ord_predicted, ord_permuted, ord_expected, ord_result,
          ord_permuted_result>>

matchVars == <<result, result0, matched_expected, pos, pairing, offered>>
overlapVars == <<arg_a, arg_b, ret_overlap>>
scoreVars == <<predicted, expected, scorecard>>
parseVars == <<text, ret_parse>>

\* what the matchers, the scorers and word_overlap leave alone
batchVars == <<loop, loop_pc, examples, sizes, visited, acc, ret, averages>>
rescoreVars == <<rescored, first>>
turnVars == <<turn_pc, turn_req, extraction, reaction_args, calls, turn_response>>
ttsVars == <<tts_pc, api_key, files, tts_req, tts_ret, requested, tts_response,
             succeeded, written>>
serverVars == <<turnVars, ttsVars>>
inferenceVars == <<inf_pc, max_retries, attempts, waits, inf_ret, inf_expected,
                   inf_result0, inf_result>>
mistralVars == <<cm_pc, cm_max, cm_attempts, cm_waits, cm_ret>>
deadlineVars == <<fd_data, fd_once, fd_twice>>
orderVars == <<ord_op, ord_predicted, ord_permuted, ord_expected, ord_result,
               ord_permuted_result>>
extraVars == <<inferenceVars, mistralVars, deadlineVars, orderVars>>
laterVars == <<parseVars, batchVars, rescoreVars, serverVars, extraVars>>
callVars == <<pc, op, scoreVars, matchVars, overlapVars, parseVars, rescoreVars,
              serverVars, extraVars>>

Init ==
    /\ pc = "idle"
    /\ op = ""
    /\ predicted = <<>>
    /\ expected = <<>>
    /\ result = NewEvalResult
    /\ result0 = NewEvalResult
    /\ matched_expected = {}
    /\ pos = 0
    /\ pairing = <<>>
    /\ offered = {}
    /\ scorecard = Absent
    /\ arg_a = <<>>
    /\ arg_b = <<>>
    /\ ret_overlap = Zero
    /\ text = <<>>
    /\ ret_parse = NoCall
    /\ loop = ""
    /\ loop_pc = "idle"
    /\ examples = <<>>
    /\ sizes = <<>>
    /\ visited = 0
    /\ acc = <<>>
    /\ ret = NoCall
    /\ averages = NoCall
    /\ rescored = FALSE
    /\ first = NoCall
    /\ turn_pc = "idle"
    /\ turn_req = Absent
    /\ extraction = NoCall
    /\ reaction_args = Absent
    /\ calls = <<>>
    /\ turn_response = Absent
    /\ tts_pc = "down"
    /\ api_key = ""
    /\ files = {}
    /\ tts_req = Absent
    /\ tts_ret = NoCall
    /\ requested = FALSE
    /\ tts_response = Absent
    /\ succeeded = {}
    /\ written = {}
    /\ inf_pc = "idle"
    /\ max_retries = 0
    /\ attempts = 0
    /\ waits = <<>>
    /\ inf_ret = NoCall
    /\ inf_expected = EmptyDict
    /\ inf_result0 = NewEvalResult
    /\ inf_result = NewEvalResult
    /\ cm_pc = "idle"
    /\ cm_max = 0
    /\ cm_attempts = 0
    /\ cm_waits = <<>>
    /\ cm_ret = NoCall
    /\ fd_data = Absent
    /\ fd_once = Absent
    /\ fd_twice = Absent
    /\ ord_op = ""
    /\ ord_predicted = <<>>
    /\ ord_permuted = <<>>
    /\ ord_expected = <<>>
    /\ ord_result = NewEvalResult
    /\ ord_permuted_result = NewEvalResult

(***************************************************************************)
(* word_overlap(a, b)                                                      *)
(***************************************************************************)
WordOverlap ==
    /\ pc = "idle"
    /\ \E x \in OverlapInputs, y \in OverlapInputs :
          /\ arg_a' = x
          /\ arg_b' = y
          /\ ret_overlap' = word_overlap(x, y)
    /\ op' = "word_overlap"
    /\ pc' = "returned"
    /\ UNCHANGED <<predicted, expected, scorecard>>
    /\ UNCHANGED matchVars
    /\ UNCHANGED laterVars

(***************************************************************************)
(* match_promises(predicted, expected, result)                             *)
(***************************************************************************)
\* the set a call finds: whatever an earlier call left in it
FreshMatched_stale == matched_expected

\* matched_expected: set[int] = set()
FreshMatched == {}

MatchPromisesCall ==
    /\ pc = "idle"
    /\ \E pool \in PromisePools, r \in ResultPool :
       \E p \in Lists(pool, MaxPred), e \in Lists(pool, MaxExp) :
          /\ predicted' = p
          /\ expected' = e
          /\ result' = r
          /\ result0' = r
    /\ matched_expected' = FreshMatched
    /\ pos' = 0
    /\ pairing' = <<>>
    /\ offered' = {}
    /\ op' = "match_promises"
    /\ pc' = "scan"
    /\ UNCHANGED scorecard
    /\ UNCHANGED overlapVars
    /\ UNCHANGED laterVars

\* one iteration of `for pred in predicted`
MatchPromisesStep ==
    /\ pc = "scan"
    /\ op = "match_promises"
    /\ pos < Len(predicted)
    /\ LET pred == predicted[pos + 1]
           best == BestPromise(pred, expected, matched_expected)
       IN  /\ offered' = Offered(expected, matched_expected)
           /\ IF PromiseMatches(best)
              THEN /\ matched_expected' = matched_expected \cup {best.idx}
                   /\ pairing' = Append(pairing, best.idx)
                   /\ result' =
                        [result EXCEPT
                           !.promise_tp = @ + 1,
                           !.confidence_errors =
                              Append(@, Abs(GetConfidence(pred)
                                            - GetConfidence(expected[best.idx])))]
              ELSE /\ matched_expected' = matched_expected
                   /\ pairing' = Append(pairing, 0)
                   /\ result' = [result EXCEPT !.promise_fp = @ + 1]
    /\ pos' = pos + 1
    /\ UNCHANGED <<pc, op, predicted, expected, result0, scorecard>>
    /\ UNCHANGED overlapVars
    /\ UNCHANGED laterVars

\* the statement after the loop, and the return
MatchPromisesFinish ==
    /\ pc = "scan"
    /\ op = "match_promises"
    /\ pos = Len(predicted)
    /\ result' = [result EXCEPT
                     !.promise_fn = @ + Unmatched(expected, matched_expected)]
    /\ pc' = "returned"
    /\ UNCHANGED <<op, predicted, expected, result0, matched_expected, pos,
                   pairing, offered, scorecard>>
    /\ UNCHANGED overlapVars
    /\ UNCHANGED laterVars

(***************************************************************************)
(* match_contradictions(predicted, expected, result)                       *)
(***************************************************************************)
MatchContradictionsCall ==
    /\ pc = "idle"
    /\ \E pool \in ContradictionPools, r \in ResultPool :
       \E p \in Lists(pool, MaxPred), e \in Lists(pool, MaxExp) :
          /\ predicted' = p
          /\ expected' = e
          /\ result' = r
          /\ result0' = r
    /\ matched_expected' = FreshMatched
    /\ pos' = 0
    /\ pairing' = <<>>
    /\ offered' = {}
    /\ op' = "match_contradictions"
    /\ pc' = "scan"
    /\ UNCHANGED scorecard
    /\ UNCHANGED overlapVars
    /\ UNCHANGED laterVars

MatchContradictionsStep ==
    /\ pc = "scan"
    /\ op = "match_contradictions"
    /\ pos < Len(predicted)
    /\ LET pred == predicted[pos + 1]
           best == BestContradiction(pred, expected, matched_expected)
       IN  /\ offered' = Offered(expected, matched_expected)
           /\ IF ContradictionMatches(best)
              THEN /\ matched_expected' = matched_expected \cup {best.idx}
                   /\ pairing' = Append(pairing, best.idx)
                   /\ result' = [result EXCEPT !.contradiction_tp = @ + 1]
              ELSE /\ matched_expected' = matched_expected
                   /\ pairing' = Append(pairing, 0)
                   /\ result' = [result EXCEPT !.contradiction_fp = @ + 1]
    /\ pos' = pos + 1
    /\ UNCHANGED <<pc, op, predicted, expected, result0, scorecard>>
    /\ UNCHANGED overlapVars
    /\ UNCHANGED laterVars

\* the statement after the loop written to the promise counter
MatchContradictionsFinish_promise_fn ==
    /\ pc = "scan"
    /\ op = "match_contradictions"
    /\ pos = Len(predicted)
    /\ result' = [result EXCEPT
                     !.promise_fn = @ + Unmatched(expected, matched_expected)]
    /\ pc' = "returned"
    /\ UNCHANGED <<op, predicted, expected, result0, matched_expected, pos,
                   pairing, offered, scorecard>>
    /\ UNCHANGED overlapVars
    /\ UNCHANGED laterVars

MatchContradictionsFinish ==
    /\ pc = "scan"
    /\ op = "match_contradictions"
    /\ pos = Len(predicted)
    /\ result' = [result EXCEPT
                     !.contradiction_fn = @ + Unmatched(expected, matched_expected)]
    /\ pc' = "returned"
    /\ UNCHANGED <<op, predicted, expected, result0, matched_expected, pos,
                   pairing, offered, scorecard>>
    /\ UNCHANGED overlapVars
    /\ UNCHANGED laterVars

(***************************************************************************)
(* The scorer calls.                                                       *)
(***************************************************************************)
\* the scorers read the contradiction lists only for their length
ContradictionLists == {<<>>, <<K_High_Ab>>}

\* the json.loads outcomes of the response texts: a failure, or a dict
PredictedOutputs(pool) ==
    {Absent} \cup {Some(Extraction(p, c)) :
                      p \in Lists(pool, MaxPred), c \in ContradictionLists}

ExpectedOutputs(pool) ==
    {Extraction(p, c) : p \in Lists(pool, MaxExp), c \in ContradictionLists}

EvaluateResponse ==
    /\ pc = "idle"
    /\ \E pool \in PromisePools :
       \E r \in PredictedOutputs(pool), e \in ExpectedOutputs(pool) :
          /\ predicted' = r
          /\ expected' = e
          /\ scorecard' = evaluate_response(r, e)
    /\ op' = "evaluate_response"
    /\ pc' = "returned"
    /\ UNCHANGED matchVars
    /\ UNCHANGED overlapVars
    /\ UNCHANGED laterVars

EvaluateExample ==
    /\ pc = "idle"
    /\ \E pool \in PromisePools :
       \E r \in PredictedOutputs(pool), e \in ExpectedOutputs(pool) :
          /\ predicted' = r
          /\ expected' = e
          /\ scorecard' = evaluate_example(r, e)
    /\ op' = "evaluate_example"
    /\ pc' = "returned"
    /\ UNCHANGED matchVars
    /\ UNCHANGED overlapVars
    /\ UNCHANGED laterVars

ExtractionScorerScore ==
    /\ pc = "idle"
    /\ \E pool \in PromisePools :
       \E r \in PredictedOutputs(pool),
          e \in {Absent} \cup {Some(x) : x \in ExpectedOutputs(pool)} :
          /\ predicted' = r
          /\ expected' = e
          /\ scorecard' = ExtractionScorer_score(r, e)
    /\ op' = "ExtractionScorer.score"
    /\ pc' = "returned"
    /\ UNCHANGED matchVars
    /\ UNCHANGED overlapVars
    /\ UNCHANGED laterVars

TopExtractionScorerScore ==
    /\ pc = "idle"
    /\ \E pool \in PromisePools :
       \E r \in PredictedOutputs(pool),
          e \in {Absent} \cup {Some(x) : x \in ExpectedOutputs(pool)} :
          /\ predicted' = r
          /\ expected' = e
          /\ scorecard' = TopExtractionScorer_score(r, e)
    /\ op' = "run_weave_evals.ExtractionScorer.score"
    /\ pc' = "returned"
    /\ UNCHANGED matchVars
    /\ UNCHANGED overlapVars
    /\ UNCHANGED laterVars

(***************************************************************************)
(* The parser calls.                                                       *)
(***************************************************************************)
ParseJsonSafe ==
    /\ pc = "idle"
    /\ \E t \in ParserInputs :
          /\ text' = t
          /\ ret_parse' = Return(parse_json_safe(t))
    /\ op' = "parse_json_safe"
    /\ pc' = "returned"
    /\ UNCHANGED <<scoreVars, matchVars, overlapVars, batchVars, rescoreVars, serverVars, extraVars>>

ExtractJsonFromText ==
    /\ pc = "idle"
    /\ \E t \in ParserInputs :
          /\ text' = t
          /\ ret_parse' = extract_json_from_text(t)
    /\ op' = "extract_json_from_text"
    /\ pc' = "returned"
    /\ UNCHANGED <<scoreVars, matchVars, overlapVars, batchVars, rescoreVars, serverVars, extraVars>>

\* call_mistral returns strip_markdown_json(content) and ExtractionScorer.score
\* gives it to json.loads inside try/except
StripMarkdownJson ==
    /\ pc = "idle"
    /\ \E t \in ParserInputs :
          /\ text' = t
          /\ ret_parse' = Return(json_loads(strip_markdown_json(t)))
    /\ op' = "strip_markdown_json"
    /\ pc' = "returned"
    /\ UNCHANGED <<scoreVars, matchVars, overlapVars, batchVars, rescoreVars, serverVars, extraVars>>

(***************************************************************************)
(* One (predicted, expected) pair given to the three extraction scorers.   *)
(***************************************************************************)
\* a promise of which the scorers read the type only
TypedPromise(t) == [text |-> Absent, type |-> Some(t), confidence |-> Absent]

TypedLists ==
    Lists({TypedPromise("ecology"), TypedPromise("economy")}, MaxTypes)

\* evaluate_response, evaluate_example and ExtractionScorer.score on the same
\* parsed response and expected output
ScoreTypeVariants ==
    /\ pc = "idle"
    /\ \E p \in TypedLists, e \in TypedLists :
          /\ predicted' = Some(Extraction(p, <<>>))
          /\ expected' = Extraction(e, <<>>)
          /\ scorecard' = evaluate_response(Some(Extraction(p, <<>>)),
                                           Extraction(e, <<>>))
          /\ first' = [example |-> evaluate_example(Some(Extraction(p, <<>>)),
                                                    Extraction(e, <<>>)),
                       scorer |-> ExtractionScorer_score(
                                      Some(Extraction(p, <<>>)),
                                      Some(Extraction(e, <<>>)))]
    /\ op' = "type_precision_variants"
    /\ pc' = "returned"
    /\ UNCHANGED <<rescored, matchVars, overlapVars, parseVars, batchVars,
                   serverVars, extraVars>>

(***************************************************************************)
(* Scoring a response text: the parse and the scorer call on its outcome.  *)
(***************************************************************************)
\* eval_extraction.evaluate_response(response_text, expected), json.loads
\* included
EvaluateResponseText ==
    /\ pc = "idle"
    /\ \E t \in ResponsePool, pool \in PromisePools :
       \E e \in ExpectedOutputs(pool) :
          /\ text' = t
          /\ ret_parse' = Return(json_loads(t))
          /\ predicted' = json_loads(t)
          /\ expected' = e
          /\ scorecard' = evaluate_response(json_loads(t), e)
    /\ op' = "evaluate_response"
    /\ pc' = "returned"
    /\ UNCHANGED <<matchVars, overlapVars, batchVars, rescoreVars, serverVars, extraVars>>

\* eval_difficulty.evaluate_model, lines 102-103: parse_json_safe on the
\* response content, evaluate_example on what it returns
EvaluateExampleText ==
    /\ pc = "idle"
    /\ \E t \in ResponsePool, pool \in PromisePools :
       \E e \in ExpectedOutputs(pool) :
          /\ text' = t
          /\ ret_parse' = Return(parse_json_safe(t))
          /\ predicted' = parse_json_safe(t)
          /\ expected' = e
          /\ scorecard' = evaluate_example(parse_json_safe(t), e)
    /\ op' = "evaluate_example"
    /\ pc' = "returned"
    /\ UNCHANGED <<matchVars, overlapVars, batchVars, rescoreVars, serverVars, extraVars>>

(***************************************************************************)
(* eval_extraction.eval_mistral_large(test_data), and avg_metrics on what  *)
(* it returns (main, line 186).                                            *)
(***************************************************************************)
EvalMistralLargeCall ==
    /\ loop_pc = "idle"
    /\ \E batch \in Lists(ExamplePool, MaxBatch) :
       \E easy \in 0..Len(batch) :
       \E medium \in 0..(Len(batch) - easy) :
          /\ examples' = batch
          /\ sizes' = <<easy, medium, Len(batch) - easy - medium>>
    /\ visited' = 0
    /\ acc' = <<>>
    /\ loop' = "eval_mistral_large"
    /\ loop_pc' = "loop"
    /\ UNCHANGED <<ret, averages, callVars>>

EvalMistralLargeStep ==
    /\ loop_pc = "loop"
    /\ loop = "eval_mistral_large"
    /\ visited < Len(examples)
    /\ LET metrics == eval_mistral_large_body(examples[visited + 1])
       IN  IF metrics.raised # ""
           THEN /\ ret' = metrics
                /\ loop_pc' = "raised"
                /\ acc' = acc
           ELSE /\ acc' = Append(acc, metrics.value[1])
                /\ UNCHANGED <<ret, loop_pc>>
    /\ visited' = visited + 1
    /\ UNCHANGED <<loop, examples, sizes, averages, callVars>>

EvalMistralLargeReturn ==
    /\ loop_pc = "loop"
    /\ loop = "eval_mistral_large"
    /\ visited = Len(examples)
    /\ ret' = Return(Groups(acc, sizes))
    /\ loop_pc' = "returned"
    /\ UNCHANGED <<loop, examples, sizes, visited, acc, averages, callVars>>

AvgMetrics ==
    /\ loop_pc = "returned"
    /\ loop = "eval_mistral_large"
    /\ averages' = avg_metrics(ret.value[1])
    /\ loop_pc' = "averaged"
    /\ UNCHANGED <<loop, examples, sizes, visited, acc, ret, callVars>>

(***************************************************************************)
(* eval_difficulty.evaluate_model(client, model, examples)                 *)
(***************************************************************************)
EvalDifficultyCall ==
    /\ loop_pc = "idle"
    /\ \E batch \in Lists(ExamplePool, MaxBatch) : examples' = batch
    /\ visited' = 0
    /\ acc' = <<>>
    /\ loop' = "eval_difficulty.evaluate_model"
    /\ loop_pc' = "loop"
    /\ UNCHANGED <<sizes, ret, averages, callVars>>

EvalDifficultyStep ==
    /\ loop_pc = "loop"
    /\ loop = "eval_difficulty.evaluate_model"
    /\ visited < Len(examples)
    /\ LET result_ == eval_difficulty_body(examples[visited + 1])
       IN  IF result_.raised # ""
           THEN /\ ret' = result_
                /\ loop_pc' = "raised"
                /\ acc' = acc
           ELSE /\ acc' = Append(acc, result_.value[1])
                /\ UNCHANGED <<ret, loop_pc>>
    /\ visited' = visited + 1
    /\ UNCHANGED <<loop, examples, sizes, averages, callVars>>

EvalDifficultyReturn ==
    /\ loop_pc = "loop"
    /\ loop = "eval_difficulty.evaluate_model"
    /\ visited = Len(examples)
    /\ ret' = eval_difficulty_return(acc)
    /\ loop_pc' = IF eval_difficulty_return(acc).raised # "" THEN "raised" ELSE "returned"
    /\ UNCHANGED <<loop, examples, sizes, visited, acc, averages, callVars>>

(***************************************************************************)
(* evaluate_models.evaluate_model(client, model_id, examples)              *)
(***************************************************************************)
EvaluateModelCall ==
    /\ loop_pc = "idle"
    /\ \E batch \in Lists(ExamplePool, MaxBatch) : examples' = batch
    /\ visited' = 0
    /\ acc' = NewEvalResult
    /\ loop' = "evaluate_models.evaluate_model"
    /\ loop_pc' = "loop"
    /\ UNCHANGED <<sizes, ret, averages, callVars>>

EvaluateModelStep ==
    /\ loop_pc = "loop"
    /\ loop = "evaluate_models.evaluate_model"
    /\ visited < Len(examples)
    /\ acc' = evaluate_model_body(examples[visited + 1], visited, acc)
    /\ visited' = visited + 1
    /\ UNCHANGED <<loop, loop_pc, examples, sizes, ret, averages, callVars>>

EvaluateModelReturn ==
    /\ loop_pc = "loop"
    /\ loop = "evaluate_models.evaluate_model"
    /\ visited = Len(examples)
    /\ ret' = Return(acc)
    /\ loop_pc' = "returned"
    /\ UNCHANGED <<loop, examples, sizes, visited, acc, averages, callVars>>

(***************************************************************************)
(* run_consolidated_evals.evaluate_on_set(client, model_id, examples)      *)
(***************************************************************************)
EvaluateOnSetCall ==
    /\ loop_pc = "idle"
    /\ \E batch \in Lists(ExamplePool, MaxBatch) :
          /\ examples' = batch
          /\ acc' = [promise_count |-> 0, type_precision |-> 0, contradiction |-> 0,
                     valid_json |-> 0, total |-> Len(batch)]
    /\ visited' = 0
    /\ loop' = "evaluate_on_set"
    /\ loop_pc' = "loop"
    /\ UNCHANGED <<sizes, ret, averages, callVars>>

EvaluateOnSetStep ==
    /\ loop_pc = "loop"
    /\ loop = "evaluate_on_set"
    /\ visited < Len(examples)
    /\ acc' = evaluate_on_set_body(examples[visited + 1], acc)
    /\ visited' = visited + 1
    /\ UNCHANGED <<loop, loop_pc, examples, sizes, ret, averages, callVars>>

EvaluateOnSetReturn ==
    /\ loop_pc = "loop"
    /\ loop = "evaluate_on_set"
    /\ visited = Len(examples)
    /\ ret' = evaluate_on_set_return(acc)
    /\ loop_pc' = IF evaluate_on_set_return(acc).raised # "" THEN "raised" ELSE "returned"
    /\ UNCHANGED <<loop, examples, sizes, visited, acc, averages, callVars>>

(***************************************************************************)
(* full_benchmark.evaluate_extraction(client, model_id, label, examples)   *)
(***************************************************************************)
EvaluateExtractionCall ==
    /\ loop_pc = "idle"
    /\ \E batch \in Lists(ExamplePool, MaxBatch) :
          /\ examples' = batch
          /\ acc' = [promise_count_correct |-> 0, type_precision |-> 0,
                     contradiction_correct |-> 0, valid_json |-> 0,
                     total |-> Len(batch), errors |-> 0, latencies |-> <<>>]
    /\ visited' = 0
    /\ loop' = "evaluate_extraction"
    /\ loop_pc' = "loop"
    /\ UNCHANGED <<sizes, ret, averages, callVars>>

EvaluateExtractionStep ==
    /\ loop_pc = "loop"
    /\ loop = "evaluate_extraction"
    /\ visited < Len(examples)
    /\ acc' = evaluate_extraction_body(examples[visited + 1], acc)
    /\ visited' = visited + 1
    /\ UNCHANGED <<loop, loop_pc, examples, sizes, ret, averages, callVars>>

EvaluateExtractionReturn ==
    /\ loop_pc = "loop"
    /\ loop = "evaluate_extraction"
    /\ visited = Len(examples)
    /\ ret' = evaluate_extraction_return(acc)
    /\ loop_pc' = "returned"
    /\ UNCHANGED <<loop, examples, sizes, visited, acc, averages, callVars>>

(***************************************************************************)
(* A second scoring call on the pair the first call was given.             *)
(***************************************************************************)
\* what a match_promises call added to result
PromiseDelta ==
    [tp |-> result.promise_tp - result0.promise_tp,
     fp |-> result.promise_fp - result0.promise_fp,
     fn |-> result.promise_fn - result0.promise_fn,
     errors |-> SubSeq(result.confidence_errors,
                       Len(result0.confidence_errors) + 1,
                       Len(result.confidence_errors)),
     pairing |-> pairing]

\* match_promises(predicted, expected, result) once more, on the result
\* object the first call has updated
MatchPromisesAgain ==
    /\ pc = "returned"
    /\ op = "match_promises"
    /\ ~rescored
    /\ first' = PromiseDelta
    /\ rescored' = TRUE
    /\ result0' = result
    /\ matched_expected' = FreshMatched
    /\ pos' = 0
    /\ pairing' = <<>>
    /\ offered' = {}
    /\ pc' = "scan"
    /\ UNCHANGED <<op, predicted, expected, result, scorecard>>
    /\ UNCHANGED <<overlapVars, parseVars, batchVars, serverVars, extraVars>>

\* what a match_contradictions call added to result
ContradictionDelta ==
    [tp |-> result.contradiction_tp - result0.contradiction_tp,
     fp |-> result.contradiction_fp - result0.contradiction_fp,
     fn |-> result.contradiction_fn - result0.contradiction_fn,
     pairing |-> pairing]

\* match_contradictions(predicted, expected, result) once more, on the
\* result object the first call has updated
MatchContradictionsAgain ==
    /\ pc = "returned"
    /\ op = "match_contradictions"
    /\ ~rescored
    /\ first' = ContradictionDelta
    /\ rescored' = TRUE
    /\ result0' = result
    /\ matched_expected' = FreshMatched
    /\ pos' = 0
    /\ pairing' = <<>>
    /\ offered' = {}
    /\ pc' = "scan"
    /\ UNCHANGED <<op, predicted, expected, result, scorecard>>
    /\ UNCHANGED <<overlapVars, parseVars, batchVars, serverVars, extraVars>>

\* evaluate_response(response_text, expected) once more
EvaluateResponseAgain ==
    /\ pc = "returned"
    /\ op = "evaluate_response"
    /\ ~rescored
    /\ first' = scorecard
    /\ rescored' = TRUE
    /\ scorecard' = evaluate_response(predicted, expected)
    /\ UNCHANGED <<pc, op, predicted, expected>>
    /\ UNCHANGED <<matchVars, overlapVars, parseVars, batchVars, serverVars, extraVars>>

(***************************************************************************)
(* POST /api/game/speech: submit_speech and process_turn.  The steps of a  *)
(* request are its two model calls.                                        *)
(***************************************************************************)
\* a request arrives: submit_speech(req) enters process_turn
SubmitSpeech ==
    /\ turn_pc \in {"idle", "answered"}
    /\ \E req \in SpeechRequests : turn_req' = Some(req)
    /\ turn_pc' = "extract"
    /\ extraction' = NoCall
    /\ reaction_args' = Absent
    /\ calls' = <<>>
    /\ turn_response' = Absent
    /\ UNCHANGED <<pc, op, scoreVars, matchVars, overlapVars, parseVars, batchVars,
                   rescoreVars, ttsVars, extraVars>>

\* extraction = extract_promises(speech, game_context); an exception leaves
\* process_turn and is answered by submit_speech with HTTPException(500)
ProcessTurnExtract ==
    /\ turn_pc = "extract"
    /\ \E api \in {"ok", "error"}, content \in ExtractionContents :
         LET out == extract_promises(ChatResponse(api, content))
         IN  /\ extraction' = out
             /\ calls' = Append(calls, "extract_promises")
             /\ IF out.raised # ""
                THEN /\ turn_pc' = "answered"
                     /\ turn_response' = Some(HTTPResponse(500, Absent))
                ELSE /\ turn_pc' = "react"
                     /\ UNCHANGED turn_response
    /\ UNCHANGED <<turn_req, reaction_args>>
    /\ UNCHANGED <<pc, op, scoreVars, matchVars, overlapVars, parseVars, batchVars,
                   rescoreVars, ttsVars, extraVars>>

\* the two get calls on extraction, reactions = generate_reactions(...),
\* the return of process_turn and the answer of submit_speech
ProcessTurnReact ==
    /\ turn_pc = "react"
    /\ turn_pc' = "answered"
    /\ IF extraction.value[1] = None
       THEN \* None.get: AttributeError
            /\ turn_response' = Some(HTTPResponse(500, Absent))
            /\ UNCHANGED <<reaction_args, calls>>
       ELSE \E api \in {"ok", "error"}, content \in ReactionContents :
              LET out == generate_reactions(ChatResponse(api, content))
              IN  /\ reaction_args' =
                       Some(ReactionCall(extraction.value[1],
                                         json_dumps(turn_req[1].game_state)))
                  /\ calls' = Append(calls, "generate_reactions")
                  /\ turn_response' =
                       IF out.raised # "" THEN Some(HTTPResponse(500, Absent))
                       ELSE Some(HTTPResponse(200,
                                Some([extraction |-> extraction.value[1],
                                      reactions |-> out.value[1]])))
    /\ UNCHANGED <<turn_req, extraction>>
    /\ UNCHANGED <<pc, op, scoreVars, matchVars, overlapVars, parseVars, batchVars,
                   rescoreVars, ttsVars, extraVars>>

(***************************************************************************)
(* POST /api/tts.                                                          *)
(***************************************************************************)
\* the server starts: api.tts is imported and reads ELEVENLABS_API_KEY from
\* the environment; the audio directory holds what earlier runs left
ServerStart ==
    /\ tts_pc = "down"
    /\ tts_pc' = "up"
    /\ api_key' \in {"", "sk"}
    /\ files' \in SUBSET CachePaths
    /\ UNCHANGED <<tts_req, tts_ret, requested, tts_response, succeeded, written>>
    /\ UNCHANGED <<pc, op, scoreVars, matchVars, overlapVars, parseVars, batchVars,
                   rescoreVars, turnVars, extraVars>>

\* generate_speech(req)
GenerateSpeech ==
    /\ tts_pc = "up"
    /\ \E n \in CitizenNames, t \in SpokenTexts, service \in ServiceOutcomes :
         LET r == text_to_speech(t, n, api_key, files, service)
         IN  /\ tts_req' = Some(TTSRequest(n, t))
             /\ tts_ret' = r.outcome
             /\ files' = r.files
             /\ requested' = r.requested
             /\ tts_response' = Some(generate_speech(r.outcome))
             /\ succeeded' = IF r.outcome.raised = ""
                             THEN succeeded \cup {TTSRequest(n, t)}
                             ELSE succeeded
             /\ written' = written \cup
                             {<<path, TTSRequest(n, t)>> : path \in r.files \ files}
    /\ UNCHANGED <<tts_pc, api_key>>
    /\ UNCHANGED <<pc, op, scoreVars, matchVars, overlapVars, parseVars, batchVars,
                   rescoreVars, turnVars, extraVars>>

(***************************************************************************)
(* run_inference as evaluate_model calls it for one example, and the       *)
(* scoring of what it returned.                                            *)
(***************************************************************************)
\* evaluate_model reaches the run_inference call of an example
RunInferenceCall ==
    /\ inf_pc = "idle"
    /\ max_retries' \in 0..MaxRetries
    /\ inf_expected' \in {E_one, E_two}
    /\ \E r \in ResultPool : inf_result0' = r /\ inf_result' = r
    /\ attempts' = 0
    /\ waits' = <<>>
    /\ inf_ret' = NoCall
    /\ inf_pc' = "try"
    /\ UNCHANGED <<pc, op, scoreVars, matchVars, overlapVars, parseVars, batchVars,
                   rescoreVars, serverVars, mistralVars, deadlineVars,
                   orderVars>>

\* one iteration of the retry loop: the call succeeds and its result is
\* returned, or anything in the try block raises and the loop sleeps
RunInferenceAttempt ==
    /\ inf_pc = "try"
    /\ MayAttempt(attempts, max_retries)
    /\ attempts' = attempts + 1
    /\ \/ /\ \E r \in SuccessfulInferences : inf_ret' = Return(r)
          /\ inf_pc' = "returned"
          /\ UNCHANGED waits
       \/ /\ waits' = Append(waits, RetryWait(attempts))
          /\ UNCHANGED <<inf_ret, inf_pc>>
    /\ UNCHANGED <<max_retries, inf_expected, inf_result0, inf_result>>
    /\ UNCHANGED <<pc, op, scoreVars, matchVars, overlapVars, parseVars, batchVars,
                   rescoreVars, serverVars, mistralVars, deadlineVars,
                   orderVars>>

\* the loop is over: return "", 0.0, 0, 0
RunInferenceExhausted ==
    /\ inf_pc = "try"
    /\ ~MayAttempt(attempts, max_retries)
    /\ inf_ret' = Return(EmptyInference)
    /\ inf_pc' = "returned"
    /\ UNCHANGED <<max_retries, attempts, waits, inf_expected, inf_result0,
                   inf_result>>
    /\ UNCHANGED <<pc, op, scoreVars, matchVars, overlapVars, parseVars, batchVars,
                   rescoreVars, serverVars, mistralVars, deadlineVars,
                   orderVars>>

\* the rest of the loop body of evaluate_model on what run_inference returned
EvaluateModelScore ==
    /\ inf_pc = "returned"
    /\ inf_result' =
         evaluate_model_body(Example("ok", inf_ret.value[1].response_text,
                                     inf_ret.value[1].latency, inf_expected),
                             0, inf_result0)
    /\ inf_pc' = "scored"
    /\ UNCHANGED <<max_retries, attempts, waits, inf_ret, inf_expected, inf_result0>>
    /\ UNCHANGED <<pc, op, scoreVars, matchVars, overlapVars, parseVars, batchVars,
                   rescoreVars, serverVars, mistralVars, deadlineVars,
                   orderVars>>

(***************************************************************************)
(* bedrock_data_gen.call_mistral                                           *)
(***************************************************************************)
CallMistralCall ==
    /\ cm_pc = "idle"
    /\ cm_max' \in 0..MaxMistralRetries
    /\ cm_attempts' = 0
    /\ cm_waits' = <<>>
    /\ cm_ret' = NoCall
    /\ cm_pc' = "try"
    /\ UNCHANGED <<pc, op, scoreVars, matchVars, overlapVars, parseVars, batchVars,
                   rescoreVars, serverVars, inferenceVars, deadlineVars,
                   orderVars>>

\* one iteration of the retry loop: invoke_model and the reading of its body
\* succeed and the content is returned, or something raises and the loop
\* sleeps
CallMistralAttempt ==
    /\ cm_pc = "try"
    /\ MayAttempt(cm_attempts, cm_max)
    /\ cm_attempts' = cm_attempts + 1
    /\ \/ /\ \E c \in MistralContents : cm_ret' = Return(c)
          /\ cm_pc' = "returned"
          /\ UNCHANGED cm_waits
       \/ /\ cm_waits' = Append(cm_waits, call_mistral_wait(cm_attempts))
          /\ UNCHANGED <<cm_ret, cm_pc>>
    /\ UNCHANGED cm_max
    /\ UNCHANGED <<pc, op, scoreVars, matchVars, overlapVars, parseVars, batchVars,
                   rescoreVars, serverVars, inferenceVars, deadlineVars,
                   orderVars>>

\* raise RuntimeError(...) after the loop
CallMistralExhausted ==
    /\ cm_pc = "try"
    /\ ~MayAttempt(cm_attempts, cm_max)
    /\ cm_ret' = Raise("RuntimeError")
    /\ cm_pc' = "raised"
    /\ UNCHANGED <<cm_max, cm_attempts, cm_waits>>
    /\ UNCHANGED <<pc, op, scoreVars, matchVars, overlapVars, parseVars, batchVars,
                   rescoreVars, serverVars, inferenceVars, deadlineVars,
                   orderVars>>

\* the caller goes on to its next call
CallMistralDone ==
    /\ cm_pc \in {"returned", "raised"}
    /\ cm_pc' = "idle"
    /\ UNCHANGED <<cm_max, cm_attempts, cm_waits, cm_ret>>
    /\ UNCHANGED <<pc, op, scoreVars, matchVars, overlapVars, parseVars, batchVars,
                   rescoreVars, serverVars, inferenceVars, deadlineVars,
                   orderVars>>

(***************************************************************************)
(* bedrock_data_gen.fix_deadlines, applied once and once more to what it   *)
(* returned.                                                               *)
(***************************************************************************)
FixDeadlines ==
    /\ \E data \in DeadlineInputs :
          /\ fd_data' = Some(data)
          /\ fd_once' = Some(fix_deadlines(data))
          /\ fd_twice' = Some(fix_deadlines(fix_deadlines(data)))
    /\ UNCHANGED <<pc, op, scoreVars, matchVars, overlapVars, parseVars, batchVars,
                   rescoreVars, serverVars, inferenceVars, mistralVars,
                   orderVars>>

(***************************************************************************)
(* match_promises and match_contradictions called on a predicted list and  *)
(* on a reordering of it, each on a fresh EvalResult, with one expected    *)
(* list.                                                                   *)
(***************************************************************************)
MatchPromisesReordered ==
    /\ ord_op = ""
    /\ \E p \in Lists(OrderPromises, MaxPred), e \in Lists(OrderPromises, MaxExp) :
         \E q \in Orders(Len(p)) :
            /\ ord_predicted' = p
            /\ ord_permuted' = Reordered(p, q)
            /\ ord_expected' = e
            /\ ord_result' = match_promises(p, e, NewEvalResult)
            /\ ord_permuted_result' = match_promises(Reordered(p, q), e, NewEvalResult)
    /\ ord_op' = "match_promises"
    /\ UNCHANGED <<pc, op, scoreVars, matchVars, overlapVars, parseVars, batchVars,
                   rescoreVars, serverVars, inferenceVars, mistralVars, deadlineVars>>

MatchContradictionsReordered ==
    /\ ord_op = ""
    /\ \E p \in Lists(OrderContradictions, MaxPred),
          e \in Lists(OrderContradictions, MaxExp) :
         \E q \in Orders(Len(p)) :
            /\ ord_predicted' = p
            /\ ord_permuted' = Reordered(p, q)
            /\ ord_expected' = e
            /\ ord_result' = match_contradictions(p, e, NewEvalResult)
            /\ ord_permuted_result' =
                  match_contradictions(Reordered(p, q), e, NewEvalResult)
    /\ ord_op' = "match_contradictions"
    /\ UNCHANGED <<pc, op, scoreVars, matchVars, overlapVars, parseVars, batchVars,
                   rescoreVars, serverVars, inferenceVars, mistralVars, deadlineVars>>

(***************************************************************************)
(* Specifications.                                                         *)
(***************************************************************************)
NextOverlap == WordOverlap

NextMatch ==
    \/ MatchPromisesCall
    \/ MatchPromisesStep
    \/ MatchPromisesFinish
    \/ MatchContradictionsCall
    \/ MatchContradictionsStep
    \/ MatchContradictionsFinish

NextScore ==
    \/ EvaluateResponse
    \/ EvaluateExample
    \/ ExtractionScorerScore

NextPromise ==
    \/ EvaluateResponse
    \/ EvaluateExample
    \/ ExtractionScorerScore
    \/ MatchPromisesCall
    \/ MatchPromisesStep
    \/ MatchPromisesFinish

NextKeys ==
    \/ EvaluateResponse
    \/ ExtractionScorerScore
    \/ TopExtractionScorerScore

NextRescore ==
    \/ MatchPromisesCall
    \/ MatchPromisesStep
    \/ MatchPromisesFinish
    \/ MatchPromisesAgain
    \/ EvaluateResponse
    \/ EvaluateResponseAgain

NextTurn ==
    \/ SubmitSpeech
    \/ ProcessTurnExtract
    \/ ProcessTurnReact

NextFence ==
    \/ ParseJsonSafe
    \/ ExtractJsonFromText
    \/ StripMarkdownJson

NextFrame ==
    \/ MatchPromisesCall
    \/ MatchPromisesStep
    \/ MatchPromisesFinish
    \/ MatchPromisesAgain
    \/ MatchContradictionsCall
    \/ MatchContradictionsStep
    \/ MatchContradictionsFinish
    \/ MatchContradictionsAgain

NextVariants ==
    \/ ScoreTypeVariants

NextInference ==
    \/ RunInferenceCall
    \/ RunInferenceAttempt
    \/ RunInferenceExhausted
    \/ EvaluateModelScore

NextMistral ==
    \/ CallMistralCall
    \/ CallMistralAttempt
    \/ CallMistralExhausted
    \/ CallMistralDone

NextOrder ==
    \/ MatchPromisesReordered
    \/ MatchContradictionsReordered

NextDeadlines ==
    \/ FixDeadlines

NextTts ==
    \/ ServerStart
    \/ GenerateSpeech

NextParse ==
    \/ ParseJsonSafe
    \/ ExtractJsonFromText

NextText ==
    \/ EvaluateResponseText
    \/ EvaluateExampleText

NextBatch ==
    \/ EvalMistralLargeCall
    \/ EvalMistralLargeStep
    \/ EvalMistralLargeReturn
    \/ AvgMetrics
    \/ EvalDifficultyCall
    \/ EvalDifficultyStep
    \/ EvalDifficultyReturn
    \/ EvaluateModelCall
    \/ EvaluateModelStep
    \/ EvaluateModelReturn
    \/ EvaluateOnSetCall
    \/ EvaluateOnSetStep
    \/ EvaluateOnSetReturn
    \/ EvaluateExtractionCall
    \/ EvaluateExtractionStep
    \/ EvaluateExtractionReturn

Next ==
    \/ NextOverlap \/ NextMatch \/ NextScore \/ NextKeys \/ NextRescore
    \/ NextParse \/ NextText \/ NextBatch \/ NextTurn \/ NextTts
    \/ NextFence \/ NextFrame \/ NextVariants \/ NextInference
    \/ NextMistral \/ NextDeadlines \/ NextOrder

\* every operation
Spec == Init /\ [][Next]_vars
\* word_overlap alone
SpecOverlap == Init /\ [][NextOverlap]_vars
\* the two matchers of evaluate_models.py
SpecMatch == Init /\ [][NextMatch]_vars
\* the three extraction scorers
SpecScore == Init /\ [][NextScore]_vars
\* everything that scores promise lists
SpecPromise == Init /\ [][NextPromise]_vars
\* the scorers that build their scorecard key by key
SpecKeys == Init /\ [][NextKeys]_vars
\* scoring one pair twice
SpecRescore == Init /\ [][NextRescore]_vars
\* the turn pipeline of the API server
SpecTurn == Init /\ [][NextTurn]_vars
\* the speech endpoint of the API server
SpecTts == Init /\ [][NextTts]_vars
\* the two matchers, each called once and once more on the same objects
SpecFrame == Init /\ [][NextFrame]_vars
\* the three scorers on one pair
SpecVariants == Init /\ [][NextVariants]_vars
\* run_inference and the scoring of its result; the loop body is straight
\* line code, so a started call keeps taking steps
SpecInference ==
    Init /\ [][NextInference]_vars /\ WF_vars(NextInference)
\* the retry loop of the data generator
SpecMistral == Init /\ [][NextMistral]_vars
\* the matchers on reordered predicted lists
SpecOrder == Init /\ [][NextOrder]_vars
\* the deadline rewriting of the data generator
SpecDeadlines == Init /\ [][NextDeadlines]_vars
\* the three fence-stripping parsers
SpecFence == Init /\ [][NextFence]_vars
\* the two structured-output parsers
SpecParse == Init /\ [][NextParse]_vars
\* the scorers on response texts
SpecText == Init /\ [][NextText]_vars
\* the batch loops and the aggregation of their results
SpecBatch == Init /\ [][NextBatch]_vars

(***************************************************************************)
(* Vocabulary of the properties.                                           *)
(***************************************************************************)
Returned == pc = "returned"
InMatcher == op \in {"match_promises", "match_contradictions"}

\* what the running call has added to the counters of result
TpDelta ==
    IF op = "match_promises"
    THEN result.promise_tp - result0.promise_tp
    ELSE result.contradiction_tp - result0.contradiction_tp
FpDelta ==
    IF op = "match_promises"
    THEN result.promise_fp - result0.promise_fp
    ELSE result.contradiction_fp - result0.contradiction_fp
FnDelta ==
    IF op = "match_promises"
    THEN result.promise_fn - result0.promise_fn
    ELSE result.contradiction_fn - result0.contradiction_fn

\* the expected indices consumed by the first k predicted entries
Consumed(k) == {pairing[j] : j \in 1..k} \ {0}

\* the expected indices still unconsumed when predicted entry k is processed
Remaining(k) == (1..Len(expected)) \ Consumed(k - 1)

\* the tokens of a string, said without the scan: the maximal runs of
\* non-whitespace characters of the lowercased string
Tokens(str) ==
    LET l == [i \in 1..Len(str) |-> LowerChar(str[i])]
    IN  {SubSeq(l, i, j) : <<i, j>> \in
            {ij \in (1..Len(l)) \X (1..Len(l)) :
                /\ ij[1] <= ij[2]
                /\ \A k \in ij[1]..ij[2] : l[k] # " "
                /\ ij[1] = 1 \/ l[ij[1] - 1] = " "
                /\ ij[2] = Len(l) \/ l[ij[2] + 1] = " "}}

(***************************************************************************)
(* C6: word_overlap(a, b) is |T(a) \cap T(b)| / min(|T(a)|, |T(b)|) for    *)
(* the sets T of lowercase whitespace-delimited tokens, and 0 when either  *)
(* set is empty; so it lies in [0, 1] and is 1 when the smaller set is     *)
(* (non-empty and) contained in the larger.                                *)
(***************************************************************************)
C6_OverlapFormula ==
    (Returned /\ op = "word_overlap") =>
        LET Ta == Tokens(arg_a)
            Tb == Tokens(arg_b)
        IN  /\ (Ta = {} \/ Tb = {}) => FracEQ(ret_overlap, Zero)
            /\ (Ta # {} /\ Tb # {}) =>
                  FracEQ(ret_overlap,
                         Frac(Cardinality(Ta \cap Tb),
                              Min(Cardinality(Ta), Cardinality(Tb))))
            /\ FracGE(ret_overlap, Zero)
            /\ FracGE(One, ret_overlap)
            /\ ret_overlap.den > 0
            /\ (Ta # {} /\ Tb # {}
                /\ \/ Cardinality(Ta) <= Cardinality(Tb) /\ Ta \subseteq Tb
                   \/ Cardinality(Tb) <= Cardinality(Ta) /\ Tb \subseteq Ta)
                  => FracEQ(ret_overlap, One)

\* a call on two texts of three tokens that share two of them
C6_Witness ==
    /\ Returned /\ op = "word_overlap"
    /\ Cardinality(Tokens(arg_a)) = 3
    /\ Cardinality(Tokens(arg_b)) = 3
    /\ FracEQ(ret_overlap, Frac(2, 3))

(***************************************************************************)
(* C7: word_overlap is symmetric on strings with non-empty token sets.     *)
(***************************************************************************)
C7_OverlapSymmetric ==
    (Returned /\ op = "word_overlap" /\ Tokens(arg_a) # {} /\ Tokens(arg_b) # {}) =>
        FracEQ(ret_overlap, word_overlap(arg_b, arg_a))

\* a call on token sets of different sizes that share a token
C7_Witness ==
    /\ Returned /\ op = "word_overlap"
    /\ Cardinality(Tokens(arg_a)) > Cardinality(Tokens(arg_b))
    /\ Tokens(arg_b) # {}
    /\ FracGT(ret_overlap, Zero)

(***************************************************************************)
(* C1: at every point of the scan of match_promises and                    *)
(* match_contradictions, every expected index has been consumed by at most *)
(* one predicted entry, every predicted entry has consumed at most one     *)
(* expected index (each true positive adds exactly one index to            *)
(* matched_expected), and no index consumed earlier is offered to a later  *)
(* predicted entry.                                                        *)
(***************************************************************************)
C1_OneToOne ==
    InMatcher =>
        /\ Len(pairing) = pos
        /\ \A j, k \in 1..Len(pairing) :
              (j # k /\ pairing[j] # 0) => pairing[j] # pairing[k]
        /\ matched_expected = Consumed(pos)
        /\ matched_expected \subseteq 1..Len(expected)
        /\ Cardinality(matched_expected) = TpDelta
        /\ pos > 0 => offered \cap Consumed(pos - 1) = {}

\* the second predicted promise would pass the threshold against the index
\* the first one consumed, and is matched elsewhere
C1_Witness ==
    /\ op = "match_promises"
    /\ pos = 2
    /\ pairing[1] # 0
    /\ pairing[2] # 0
    /\ FracGE(word_overlap(GetStr(predicted[2].text),
                           GetStr(expected[pairing[1]].text)),
              PROMISE_THRESHOLD)

(***************************************************************************)
(* C2: when match_promises or match_contradictions returns, the call has   *)
(* added tp + fp = len(predicted) and tp + fn = len(expected) to the       *)
(* counters, and tp <= min(len(predicted), len(expected)).                 *)
(***************************************************************************)
C2_CounterDeltas ==
    (InMatcher /\ Returned) =>
        /\ TpDelta >= 0 /\ FpDelta >= 0 /\ FnDelta >= 0
        /\ TpDelta + FpDelta = Len(predicted)
        /\ TpDelta + FnDelta = Len(expected)
        /\ TpDelta <= Min(Len(predicted), Len(expected))

\* a call on a result that already holds counts, ending with one match, one
\* false positive and one false negative
C2_Witness ==
    /\ InMatcher /\ Returned
    /\ result0.promise_tp > 0
    /\ TpDelta = 1 /\ FpDelta = 1 /\ FnDelta = 1

(***************************************************************************)
(* C3: in match_promises a predicted promise is a true positive exactly    *)
(* when its best overlap with a not yet consumed expected promise is at    *)
(* least 0.8, and it then consumes an unconsumed index of best overlap;    *)
(* otherwise it is a false positive.  'build solar panels' against         *)
(* 'build solar farms' has overlap 2/3 and gives one false positive and    *)
(* one false negative.                                                     *)
(***************************************************************************)
PromiseOverlap(k, i) ==
    word_overlap(GetStr(predicted[k].text), GetStr(expected[i].text))

C3_PromiseGate ==
    (op = "match_promises") =>
        /\ \A k \in 1..Len(pairing) :
              /\ pairing[k] # 0 <=>
                    \E i \in Remaining(k) :
                       5 * PromiseOverlap(k, i).num >= 4 * PromiseOverlap(k, i).den
              /\ pairing[k] # 0 =>
                    /\ pairing[k] \in Remaining(k)
                    /\ \A i \in Remaining(k) :
                          FracGE(PromiseOverlap(k, pairing[k]), PromiseOverlap(k, i))
        /\ TpDelta = Cardinality({k \in 1..Len(pairing) : pairing[k] # 0})
        /\ FpDelta = Cardinality({k \in 1..Len(pairing) : pairing[k] = 0})
        /\ (/\ Returned
            /\ Len(predicted) = 1 /\ predicted[1].text = Some(T_panels)
            /\ Len(expected) = 1 /\ expected[1].text = Some(T_farms))
              => /\ PromiseOverlap(1, 1) = Frac(2, 3)
                 /\ TpDelta = 0 /\ FpDelta = 1 /\ FnDelta = 1

\* the call of scenario A has returned
C3_Witness ==
    /\ op = "match_promises" /\ Returned
    /\ Len(predicted) = 1 /\ predicted[1].text = Some(T_panels)
    /\ Len(expected) = 1 /\ expected[1].text = Some(T_farms)
    /\ FpDelta = 1 /\ FnDelta = 1

(***************************************************************************)
(* C4: match_contradictions never pairs a predicted contradiction with an  *)
(* expected one of another severity (severities compared as the code       *)
(* reads them: lowercased and stripped), whatever the description overlap  *)
(* and whatever else is in the lists.                                      *)
(***************************************************************************)
C4_SeverityGate ==
    (op = "match_contradictions") =>
        \A k \in 1..Len(pairing) :
            pairing[k] # 0 =>
                Strip(Lower(GetStr(predicted[k].severity)))
                    = Strip(Lower(GetStr(expected[pairing[k]].severity)))

\* a 'high' prediction left unmatched although an unconsumed 'medium'
\* expectation has the same description
C4_Witness ==
    /\ op = "match_contradictions"
    /\ pos >= 1
    /\ pairing[1] = 0
    /\ Strip(Lower(GetStr(predicted[1].severity))) = S_high
    /\ \E i \in 1..Len(expected) :
          /\ expected[i].severity = Some(S_medium)
          /\ FracEQ(word_overlap(GetStr(predicted[1].description),
                                 GetStr(expected[i].description)), One)

(***************************************************************************)
(* C5: in match_contradictions a predicted contradiction is a true         *)
(* positive exactly when some not yet consumed expected contradiction has  *)
(* the same severity and a description overlap of at least 0.5; it then    *)
(* consumes one of best overlap among those of its severity; otherwise it  *)
(* is a false positive.                                                    *)
(***************************************************************************)
DescriptionOverlap(k, i) ==
    word_overlap(GetStr(predicted[k].description), GetStr(expected[i].description))

SameSeverityRemaining(k) ==
    {i \in Remaining(k) :
        Strip(Lower(GetStr(predicted[k].severity)))
            = Strip(Lower(GetStr(expected[i].severity)))}

C5_ContradictionGate ==
    (op = "match_contradictions") =>
        /\ \A k \in 1..Len(pairing) :
              /\ pairing[k] # 0 <=>
                    \E i \in SameSeverityRemaining(k) :
                       2 * DescriptionOverlap(k, i).num >= DescriptionOverlap(k, i).den
              /\ pairing[k] # 0 =>
                    /\ pairing[k] \in SameSeverityRemaining(k)
                    /\ \A i \in SameSeverityRemaining(k) :
                          FracGE(DescriptionOverlap(k, pairing[k]),
                                 DescriptionOverlap(k, i))
        /\ TpDelta = Cardinality({k \in 1..Len(pairing) : pairing[k] # 0})
        /\ FpDelta = Cardinality({k \in 1..Len(pairing) : pairing[k] = 0})

\* a match at exactly 0.5, taken although an expectation of another
\* severity overlaps more
C5_Witness ==
    /\ op = "match_contradictions"
    /\ pos >= 1
    /\ pairing[1] # 0
    /\ FracEQ(DescriptionOverlap(1, pairing[1]), CONTRADICTION_THRESHOLD)
    /\ \E i \in 1..Len(expected) :
          FracGT(DescriptionOverlap(1, i), DescriptionOverlap(1, pairing[1]))

(***************************************************************************)
(* Vocabulary of the scorer properties.                                    *)
(***************************************************************************)
ScorerOps == {"evaluate_response", "evaluate_example", "ExtractionScorer.score"}

\* a scorer has returned on a response and an expected text that parsed
ScoredParsed ==
    /\ Returned
    /\ op \in ScorerOps
    /\ predicted # Absent
    /\ op = "ExtractionScorer.score" => expected # Absent

PredPromises == predicted[1].promises
ExpPromises ==
    IF op = "ExtractionScorer.score" THEN expected[1].promises ELSE expected.promises

HasRaised == scorecard.raised # ""
Card == scorecard.value[1]

\* the scorecard's count-match entry says true
CountMatch ==
    CASE op = "evaluate_response" -> Card.promise_count_match = 1
      [] op = "evaluate_example" -> Card.promise_count = 1
      [] op = "ExtractionScorer.score" -> Card.promise_count_match = TRUE

AllTyped(promises) == \A i \in 1..Len(promises) : promises[i].type # Absent

(***************************************************************************)
(* C8: whenever the expected promise list is empty, every extraction       *)
(* scorer returns type_precision = 1.0, whatever the predicted promise     *)
(* list holds.                                                             *)
(***************************************************************************)
C8_VacuousPrecision ==
    (ScoredParsed /\ ExpPromises = <<>>) =>
        /\ ~HasRaised
        /\ FracEQ(Card.type_precision, One)

(***************************************************************************)
(* C9 as stated: scoring a promise list P against an identical copy gives  *)
(* count_match = true and type_precision = 1.0, and under match_promises   *)
(* every entry of P with a non-empty text is a true positive, with no      *)
(* false positive and no false negative when all texts are non-empty.      *)
(***************************************************************************)
NonEmptyText(p) == GetStr(p.text) # <<>>

HasToken(p) == Tokens(GetStr(p.text)) # {}

C10_BothEmpty ==
    /\ (ScoredParsed /\ PredPromises = <<>> /\ ExpPromises = <<>>) =>
          /\ ~HasRaised
          /\ CountMatch
          /\ FracEQ(Card.type_precision, One)
    /\ (op = "match_promises" /\ Returned /\ predicted = <<>> /\ expected = <<>>) =>
          /\ TpDelta = 0 /\ FpDelta = 0 /\ FnDelta = 0
          /\ result = result0
          /\ pairing = <<>>

\* evaluate_example has returned on two empty promise lists
C10_Witness ==
    /\ ScoredParsed
    /\ op = "evaluate_example"
    /\ PredPromises = <<>>
    /\ ExpPromises = <<>>

(***************************************************************************)
(* Vocabulary of the parser properties.                                    *)
(***************************************************************************)
ParserOps == {"parse_json_safe", "extract_json_from_text"}
Parsed == Returned /\ op \in ParserOps

(***************************************************************************)
(* C11: for every input text, parse_json_safe and extract_json_from_text   *)
(* return a parsed mapping or the invalid sentinel and never raise to the  *)
(* caller, also on text with no JSON, on a fenced block that is not valid  *)
(* JSON and on a first-brace-to-last-brace substring that is not valid     *)
(* JSON.                                                                   *)
(***************************************************************************)
C11_ParsersNeverRaise ==
    Parsed => ret_parse.raised = ""

(***************************************************************************)
(* C12: scoring a response text that is not parseable as JSON ('not json', *)
(* the empty string) does not raise and returns the scorecard with         *)
(* valid_json = 0, the count match at 0, type_precision = 0 and the        *)
(* contradiction entry at 0.                                               *)
(***************************************************************************)
TextScorers == {"evaluate_response", "evaluate_example"}
ScoredText == Returned /\ op \in TextScorers /\ ret_parse # NoCall

C12_UnparseableZero ==
    /\ (ScoredText /\ text \in {T_not_json, <<>>}) => predicted = Absent
    /\ (Returned /\ op \in TextScorers /\ predicted = Absent) =>
          /\ ~HasRaised
          /\ Card.valid_json = 0
          /\ FracEQ(Card.type_precision, Zero)
          /\ op = "evaluate_response" =>
                /\ Card.promise_count_match = 0
                /\ Card.contradiction_detection = 0
          /\ op = "evaluate_example" =>
                /\ Card.promise_count = 0
                /\ Card.contradiction = 0

\* 'not json' scored against an expectation with no promise and no
\* contradiction, on which an empty parsed response would score full marks
C12_Witness ==
    /\ ScoredText
    /\ op = "evaluate_response"
    /\ text = T_not_json
    /\ expected = Extraction(<<>>, <<>>)
    /\ Card.valid_json = 0

(***************************************************************************)
(* Vocabulary of the batch properties.                                     *)
(***************************************************************************)
BatchLoops ==
    {"eval_mistral_large", "eval_difficulty.evaluate_model",
     "evaluate_models.evaluate_model"}

\* the batch function has returned or raised
LoopOver == loop_pc \in {"returned", "averaged", "raised"}

\* how many per-example results the loop has recorded
Recorded ==
    IF loop = "evaluate_models.evaluate_model" THEN Len(acc.predictions) ELSE Len(acc)

(***************************************************************************)
(* C13: in eval_mistral_large and the two evaluate_model loops a failing   *)
(* example (API call error, unparseable response) does not stop the loop:  *)
(* one result is recorded for every example the loop has started on, and   *)
(* when the function is over it has visited every example of the batch.    *)
(***************************************************************************)
C13_LoopVisitsAll ==
    loop \in BatchLoops =>
        /\ Recorded = visited
        /\ LoopOver => visited = Len(examples)

\* twice the value of a key, an integer on the scorecards of the model
Twice(card, key) == (2 * Value(card, key).num) \div Value(card, key).den

\* twice the sum of a key over items, said by counting the items per value
TwiceSum(items, key) ==
    LET count(t) == Cardinality({i \in 1..Len(items) : Twice(items[i], key) = t})
    IN  count(1) + 2 * count(2) + 3 * count(3) + 4 * count(4) + 5 * count(5)
        + 6 * count(6)

\* v is scale times the arithmetic mean of key over items
IsScaledMean(v, items, key, scale) ==
    /\ v.den > 0
    /\ \A i \in 1..Len(items) : Twice(items[i], key) \in 0..6
    /\ 2 * Len(items) * v.num = scale * TwiceSum(items, key) * v.den

Averaged == loop = "eval_mistral_large" /\ loop_pc = "averaged" /\ averages.raised = ""
DifficultyReturned == loop = "eval_difficulty.evaluate_model" /\ loop_pc = "returned"

\* the overall and the per-difficulty values avg_metrics returned are means
AvgMetricsMeans ==
    Averaged =>
        \A key \in METRIC_NAMES :
            /\ IsScaledMean(averages.value[1].overall[key], acc, key, 1)
            /\ \A g \in 1..Len(DIFFICULTIES) :
                  IsScaledMean(averages.value[1].by_diff[g][key],
                               ret.value[1][g], key, 1)

(***************************************************************************)
(* C14 as stated: for a non-empty sequence of scorecards, avg_metrics and  *)
(* eval_difficulty.evaluate_model return, for each key, the arithmetic     *)
(* mean of the key's values (1.0, 0.0, 0.5 aggregate to 0.5).              *)
(***************************************************************************)
C14_Mean_AsStated ==
    /\ AvgMetricsMeans
    /\ DifficultyReturned =>
          \A key \in SCORE_KEYS : IsScaledMean(ret.value[1][key], acc, key, 1)

(***************************************************************************)
(* C14 amended: for a non-empty sequence of scorecards, avg_metrics        *)
(* returns for each key the arithmetic mean of the key's values, overall   *)
(* and per difficulty (1.0, 0.0, 0.5 aggregate to 0.5), and                *)
(* eval_difficulty.evaluate_model returns for each key 100 times that mean *)
(* (1.0, 0.0, 0.5 aggregate to 50).                                        *)
(***************************************************************************)
C14_Mean ==
    /\ AvgMetricsMeans
    /\ DifficultyReturned =>
          \A key \in SCORE_KEYS : IsScaledMean(ret.value[1][key], acc, key, 100)
    /\ (Averaged /\ Len(acc) = 3
        /\ FracEQ(acc[1].type_precision, One)
        /\ FracEQ(acc[2].type_precision, Zero)
        /\ FracEQ(acc[3].type_precision, Frac(1, 2)))
          => FracEQ(averages.value[1].overall.type_precision, Frac(1, 2))
    /\ (DifficultyReturned /\ Len(acc) = 3
        /\ FracEQ(acc[1].type_precision, One)
        /\ FracEQ(acc[2].type_precision, Zero)
        /\ FracEQ(acc[3].type_precision, Frac(1, 2)))
          => FracEQ(ret.value[1].type_precision, Frac(50, 1))

\* avg_metrics has returned on three scorecards, one per difficulty, with
\* type_precision 1.0, 0.0 and 0.5
C14_Witness ==
    /\ Averaged
    /\ Len(acc) = 3
    /\ FracEQ(acc[1].type_precision, One)
    /\ FracEQ(acc[2].type_precision, Zero)
    /\ FracEQ(acc[3].type_precision, Frac(1, 2))
    /\ FracEQ(averages.value[1].overall.type_precision, Frac(1, 2))

(***************************************************************************)
(* C15: aggregating an empty sequence of scorecards fails with an explicit *)
(* EmptyBatch error: avg_metrics on a difficulty with no result, and       *)
(* evaluate_on_set and evaluate_extraction on no example, raise EmptyBatch *)
(* rather than a generic division error or a silent default.               *)
(***************************************************************************)
C15_EmptyBatchError ==
    /\ (/\ loop = "eval_mistral_large"
        /\ loop_pc = "averaged"
        /\ \E g \in 1..Len(DIFFICULTIES) : ret.value[1][g] = <<>>)
          => averages.raised = "EmptyBatch"
    /\ (/\ loop \in {"evaluate_on_set", "evaluate_extraction"}
        /\ LoopOver
        /\ examples = <<>>)
          => ret.raised = "EmptyBatch"

(***************************************************************************)
(* C16: a promise entry without the type field (or the text field), on the *)
(* predicted or the expected side, is read as having the empty string      *)
(* there: the scorers and match_promises complete without raising, and in  *)
(* match_promises an entry without text matches nothing.                   *)
(***************************************************************************)
LacksType(promises) == \E i \in 1..Len(promises) : promises[i].type = Absent

C16_MissingFieldLenient ==
    /\ (ScoredParsed /\ (LacksType(PredPromises) \/ LacksType(ExpPromises)))
          => ~HasRaised
    /\ (op = "match_promises") =>
          \A k \in 1..Len(pairing) :
              /\ predicted[k].text = Absent => pairing[k] = 0
              /\ pairing[k] # 0 => expected[pairing[k]].text # Absent

(***************************************************************************)
(* C17: all scorecards one scorer produces have the same key set, on a     *)
(* valid response, on a response that is not valid JSON and on an expected *)
(* text that is not valid JSON: the key set of every scorecard is the one  *)
(* of the scorer's valid path.                                             *)
(***************************************************************************)
KeyScorers ==
    {"evaluate_response", "ExtractionScorer.score",
     "run_weave_evals.ExtractionScorer.score"}

\* the keys of the scorecard a scorer returns on a valid response
ValidPathKeys ==
    IF op = "evaluate_response"
    THEN {"valid_json", "promise_count_match", "type_precision",
          "contradiction_detection"}
    ELSE {"json_valid", "promise_count_match", "type_precision",
          "contradiction_detection"}

C17_SameKeySet ==
    (Returned /\ op \in KeyScorers /\ ~HasRaised) => DOMAIN Card = ValidPathKeys

ReactionCalled == \E i \in 1..Len(calls) : calls[i] = "generate_reactions"

ListOf(field) == IF field = Absent THEN <<>> ELSE field[1]

C19_ExtractThenReact ==
    /\ \A i \in 1..Len(calls) :
         calls[i] = "generate_reactions" =>
           /\ i = 2
           /\ calls[1] = "extract_promises"
           /\ extraction.raised = ""
           /\ extraction.value # Absent
    /\ ReactionCalled <=> reaction_args # Absent
    /\ reaction_args # Absent =>
         LET e == extraction.value[1]
             a == reaction_args[1]
         IN  /\ a.promises = ListOf(e.promises)
             /\ a.contradictions = ListOf(e.contradictions)
             /\ e.raw # Absent => a.promises = <<>> /\ a.contradictions = <<>>
    /\ extraction.raised # "" =>
         /\ ~ReactionCalled
         /\ turn_pc = "answered"
         /\ turn_response = Some(HTTPResponse(500, Absent))

\* a request answered 200 whose reaction call was given a promise and a
\* contradiction of the extraction result
C19_Witness ==
    /\ turn_pc = "answered"
    /\ turn_response # Absent
    /\ turn_response[1].status = 200
    /\ reaction_args # Absent
    /\ reaction_args[1].promises # <<>>
    /\ reaction_args[1].contradictions # <<>>

\* a request whose extraction call raised
C19_Witness_Raised ==
    /\ turn_pc = "answered"
    /\ extraction.raised = "APIError"

(***************************************************************************)
(* C20: POST /api/tts answers 400 exactly when text_to_speech raised       *)
(* ValueError, which it does exactly when the API key is not set, whether  *)
(* or not the file of the request exists; it answers 500 exactly when      *)
(* text_to_speech raised anything else, and it answers 200 with a file     *)
(* exactly when text_to_speech returned, the file being the path returned. *)
(***************************************************************************)
TtsAnswered == tts_response # Absent

RequestPath == output_path(tts_req[1].citizen_name, tts_req[1].text)

C20_TtsStatus ==
    TtsAnswered =>
      LET status == tts_response[1].status
          body == tts_response[1].body
      IN  /\ status \in {200, 400, 500}
          /\ status = 400 <=> tts_ret.raised = "ValueError"
          /\ tts_ret.raised = "ValueError" <=> api_key = ""
          /\ status = 500 <=> tts_ret.raised \notin {"", "ValueError"}
          /\ status = 200 <=> (tts_ret.raised = "" /\ tts_ret.value # Absent)
          /\ body # Absent <=> status = 200
          /\ status = 200 => body = tts_ret.value /\ body = Some(RequestPath)
          /\ api_key = "" => ~requested

\* a request for a file that exists, answered 400 because no key is set
C20_Witness ==
    /\ TtsAnswered
    /\ api_key = ""
    /\ RequestPath \in files
    /\ tts_response[1].status = 400

\* a request answered 500 after a non-2xx answer of the TTS service
C20_Witness_500 ==
    /\ TtsAnswered
    /\ tts_ret.raised = "HTTPStatusError"
    /\ tts_response[1].status = 500

(***************************************************************************)
(* C21: a valid JSON object wrapped in triple-backquote fences, with or    *)
(* without the json tag, or surrounded by prose, is parsed by each of      *)
(* extract_json_from_text, parse_json_safe and strip_markdown_json (with   *)
(* the json.loads that follows it) to the mapping the bare object parses   *)
(* to.                                                                     *)
(***************************************************************************)
FenceParsers == {"parse_json_safe", "extract_json_from_text", "strip_markdown_json"}

\* DOC_ecology bare, fenced with and without the tag, and inside prose
WrappedDocs ==
    { DOC_ecology,
      FENCE \o JSON_TAG \o <<NL>> \o DOC_ecology \o <<NL>> \o FENCE,
      FENCE \o <<NL>> \o DOC_ecology \o <<NL>> \o FENCE,
      FENCE \o DOC_ecology \o FENCE,
      T_sure \o DOC_ecology \o <<" ", "o", "k">> }

\* the mapping the parser gave, Absent for none
ParsedMapping ==
    IF ret_parse.raised # "" THEN Absent
    ELSE IF op = "extract_json_from_text" THEN ret_parse.value
    ELSE ret_parse.value[1]

C21_WrappedSameMapping ==
    (Returned /\ op \in FenceParsers /\ text \in WrappedDocs) =>
        ParsedMapping = Some(D_ecology)

(***************************************************************************)
(* C22: from its entry to its return a call of match_promises changes of   *)
(* its arguments only result.promise_tp, promise_fp, promise_fn and        *)
(* confidence_errors, a call of match_contradictions only                  *)
(* result.contradiction_tp, contradiction_fp and contradiction_fn; the     *)
(* predicted list, the expected list and every other field of result stay  *)
(* as they were, also over a second call on the same objects; and every    *)
(* call starts with an empty matched_expected, whatever the call before    *)
(* left in its own.                                                        *)
(***************************************************************************)
Matchers == {"match_promises", "match_contradictions"}

PromiseFields == {"promise_tp", "promise_fp", "promise_fn", "confidence_errors"}
ContradictionFields == {"contradiction_tp", "contradiction_fp", "contradiction_fn"}

SameOutside(fields, r1, r2) ==
    \A f \in (DOMAIN r1) \ fields : r1[f] = r2[f]

FrameStep ==
    /\ (pc # "idle" /\ op' \in Matchers) =>
          /\ predicted' = predicted
          /\ expected' = expected
    /\ (pc # "idle" /\ op' = "match_promises") =>
          SameOutside(PromiseFields, result, result')
    /\ (pc # "idle" /\ op' = "match_contradictions") =>
          SameOutside(ContradictionFields, result, result')
    /\ (pc # "scan" /\ pc' = "scan" /\ op' \in Matchers) => matched_expected' = {}

C22_Frame == [][FrameStep]_vars

\* a second match_contradictions call has returned, on a result that held
\* promise counts and confidence errors, after a first call that matched
C22_Witness ==
    /\ rescored /\ Returned /\ op = "match_contradictions"
    /\ first.tp >= 1
    /\ result.contradiction_tp > result0.contradiction_tp
    /\ result.promise_tp > 0
    /\ result.confidence_errors # <<>>

(***************************************************************************)
(* C23: the positional zip of evaluate_response and the zip of sorted      *)
(* types of evaluate_example and ExtractionScorer.score are not            *)
(* equivalent: there is a pair of promise lists with a non-empty expected  *)
(* list and a type that occurs twice on which all three return and the     *)
(* positional type_precision differs from the sorted one; the two sorted   *)
(* variants agree with each other on every pair.                           *)
(***************************************************************************)
HasDuplicateType(promises) ==
    \E i, j \in 1..Len(promises) : i # j /\ promises[i].type = promises[j].type

\* type_precision of the three variants on the pair (p, e)
PositionalPrecision(p, e) ==
    evaluate_response(Some(Extraction(p, <<>>)), Extraction(e, <<>>))
        .value[1].type_precision
SortedPrecision(p, e) ==
    evaluate_example(Some(Extraction(p, <<>>)), Extraction(e, <<>>))
        .value[1].type_precision
ScorerPrecision(p, e) ==
    ExtractionScorer_score(Some(Extraction(p, <<>>)), Some(Extraction(e, <<>>)))
        .value[1].type_precision

DivergeOn(p, e) ==
    /\ e # <<>>
    /\ HasDuplicateType(p) \/ HasDuplicateType(e)
    /\ ~FracEQ(PositionalPrecision(p, e), SortedPrecision(p, e))
    /\ ~FracEQ(PositionalPrecision(p, e), ScorerPrecision(p, e))

VariantsScored == Returned /\ op = "type_precision_variants"

C23_VariantsDiverge ==
    /\ \E p \in TypedLists, e \in TypedLists : DivergeOn(p, e)
    /\ (VariantsScored /\ expected.promises # <<>>) =>
          FracEQ(first.example.value[1].type_precision,
                 first.scorer.value[1].type_precision)

\* the three scorers have returned on a pair with a repeated type and the
\* positional type_precision is not the sorted one
C23_Witness ==
    /\ VariantsScored
    /\ scorecard.raised = ""
    /\ expected.promises # <<>>
    /\ HasDuplicateType(predicted[1].promises) \/ HasDuplicateType(expected.promises)
    /\ ~FracEQ(scorecard.value[1].type_precision,
               first.example.value[1].type_precision)
    /\ ~FracEQ(scorecard.value[1].type_precision,
               first.scorer.value[1].type_precision)

(***************************************************************************)
(* C24: run_inference makes at most max_retries model calls; a successful  *)
(* call is its last call and its result is what is returned; when every    *)
(* call failed it returns ("", 0.0, 0, 0) and raises nothing; every call   *)
(* of run_inference returns and is scored; evaluate_model then adds every  *)
(* expected promise and contradiction of the example to the false          *)
(* negatives, counts no true or false positive and leaves valid_json_count *)
(* as it was.                                                              *)
(***************************************************************************)
InferenceReturned == inf_pc \in {"returned", "scored"}
AllAttemptsFailed == Len(waits) = attempts

InferenceSafe ==
    /\ attempts <= max_retries
    /\ Len(waits) \in {attempts, attempts - 1}
    /\ inf_pc = "try" => AllAttemptsFailed
    /\ InferenceReturned =>
          /\ inf_ret.raised = ""
          /\ AllAttemptsFailed =>
                attempts = max_retries /\ inf_ret = Return(EmptyInference)
          /\ ~AllAttemptsFailed => inf_ret.value[1] \in SuccessfulInferences
    /\ (inf_pc = "scored" /\ AllAttemptsFailed) =>
          /\ inf_result.promise_fn =
                inf_result0.promise_fn + Len(inf_expected.promises)
          /\ inf_result.contradiction_fn =
                inf_result0.contradiction_fn + Len(inf_expected.contradictions)
          /\ inf_result.promise_tp = inf_result0.promise_tp
          /\ inf_result.promise_fp = inf_result0.promise_fp
          /\ inf_result.contradiction_tp = inf_result0.contradiction_tp
          /\ inf_result.contradiction_fp = inf_result0.contradiction_fp
          /\ inf_result.valid_json_count = inf_result0.valid_json_count
          /\ inf_result.total_examples = inf_result0.total_examples + 1

C24_RunInference == []InferenceSafe /\ (inf_pc = "try" ~> inf_pc = "scored")

\* every one of three calls failed and the example has been scored
C24_Witness ==
    /\ inf_pc = "scored"
    /\ AllAttemptsFailed
    /\ attempts = 3
    /\ inf_expected = E_one

(***************************************************************************)
(* C25: call_mistral makes at most max_retries attempts, returns the       *)
(* content of the first attempt that succeeds without a further attempt,   *)
(* raises RuntimeError after max_retries failed attempts, and the waits    *)
(* before successive retries grow geometrically: each wait is the wait     *)
(* before it times one constant factor greater than 1.                     *)
(***************************************************************************)
Geometric(ws) ==
    /\ \A i \in 1..(Len(ws) - 1) : ws[i + 1] > ws[i]
    /\ \A i \in 2..(Len(ws) - 1) : ws[i] * ws[i] = ws[i - 1] * ws[i + 1]

C25_ExponentialBackoff ==
    /\ cm_attempts <= cm_max
    /\ cm_pc = "returned" =>
          /\ cm_ret.raised = ""
          /\ Len(cm_waits) = cm_attempts - 1
    /\ cm_pc = "raised" =>
          /\ cm_ret = Raise("RuntimeError")
          /\ cm_attempts = cm_max
          /\ Len(cm_waits) = cm_max
    /\ Geometric(cm_waits)

(***************************************************************************)
(* C26: after fix_deadlines(data) the deadline of every promise is one of  *)
(* immediate, by_round_3, by_round_5, by_end_of_game, whatever it was;     *)
(* short_term, medium_term and long_term have become by_round_3,           *)
(* by_round_5 and by_end_of_game; a round-based deadline is as it was; and *)
(* fix_deadlines applied to the result gives the result again.             *)
(***************************************************************************)
DeadlinesFixed == fd_once # Absent

PromisesOf(data) == IF data = Absent THEN <<>> ELSE data[1]

C26_AllRoundBased ==
    DeadlinesFixed =>
      LET before == PromisesOf(fd_data[1])
          after == PromisesOf(fd_once[1])
      IN  /\ Len(after) = Len(before)
          /\ \A i \in 1..Len(after) :
                /\ after[i].deadline # Absent
                /\ after[i].deadline[1] \in ROUND_DEADLINES
                /\ before[i].deadline = Some("short_term") =>
                      after[i].deadline = Some("by_round_3")
                /\ before[i].deadline = Some("medium_term") =>
                      after[i].deadline = Some("by_round_5")
                /\ before[i].deadline = Some("long_term") =>
                      after[i].deadline = Some("by_end_of_game")
                /\ (before[i].deadline # Absent
                    /\ before[i].deadline[1] \in ROUND_DEADLINES) =>
                      after[i].deadline = before[i].deadline
          /\ fd_twice = fd_once

(***************************************************************************)
(* C27: with the API key set, a text_to_speech call with the arguments of  *)
(* a call that has succeeded returns the path of those arguments and posts *)
(* nothing to the TTS service; a call whose post fails leaves the files as *)
(* they were, and the call that follows it with the same arguments posts   *)
(* again.                                                                  *)
(***************************************************************************)
TtsCallStep == tts_pc = "up" /\ api_key = "sk" /\ tts_req' # Absent

C27_CallStep ==
    TtsCallStep =>
      LET req == tts_req'[1]
          path == output_path(req.citizen_name, req.text)
      IN  /\ req \in succeeded =>
                /\ tts_ret' = Return(path)
                /\ ~requested'
                /\ files' = files
          /\ tts_ret'.raised # "" => (requested' /\ files' = files)
          /\ (tts_req = tts_req' /\ tts_ret.raised # "") => requested'

C27_Witness_Failed ==
    /\ TtsAnswered
    /\ api_key = "sk"
    /\ tts_ret.raised = "HTTPStatusError"
    /\ requested
    /\ RequestPath \notin files

(***************************************************************************)
(* C30: a text_to_speech call answered from the cache returns a file that  *)
(* was written for its own citizen_name and text: no file written for one  *)
(* (citizen_name, text) pair is the cache file of a different pair.        *)
(***************************************************************************)
CacheHit == TtsAnswered /\ tts_ret.raised = "" /\ ~requested

C30_KeyInjective ==
    CacheHit => \A w \in written : w[1] = RequestPath => w[2] = tts_req[1]

(***************************************************************************)
(* C29: when evaluate_model returns, the result has as many latencies and  *)
(* as many predictions as total_examples, valid_json_count is at most      *)
(* total_examples, and the stored predictions whose valid_json flag is     *)
(* true are valid_json_count many, the response {} included.               *)
(***************************************************************************)
EvaluateModelReturned ==
    loop = "evaluate_models.evaluate_model" /\ loop_pc = "returned"

FlaggedValid(predictions) ==
    Cardinality({i \in 1..Len(predictions) : predictions[i].valid_json})

C29_CountersAgree ==
    EvaluateModelReturned =>
      LET r == ret.value[1]
      IN  /\ Len(r.latencies) = r.total_examples
          /\ Len(r.predictions) = r.total_examples
          /\ r.total_examples = Len(examples)
          /\ r.valid_json_count <= r.total_examples
          /\ FlaggedValid(r.predictions) = r.valid_json_count

(***************************************************************************)
(* C28: for one expected list, match_promises and match_contradictions     *)
(* count the same true positives, false positives and false negatives on   *)
(* a predicted list and on every reordering of it, and the true positives  *)
(* are as many as the largest one-to-one assignment of predicted entries   *)
(* to expected entries in which every pair passes the matcher's gate.      *)
(***************************************************************************)
Reorderable == ord_op # ""

OrderCounts(r) ==
    IF ord_op = "match_promises"
    THEN <<r.promise_tp, r.promise_fp, r.promise_fn>>
    ELSE <<r.contradiction_tp, r.contradiction_fp, r.contradiction_fn>>

\* the gate of the matcher on one predicted and one expected entry
GateHolds(pred, exp) ==
    IF ord_op = "match_promises"
    THEN PromiseMatches(BestPromise(pred, <<exp>>, {}))
    ELSE ContradictionMatches(BestContradiction(pred, <<exp>>, {}))

\* the one-to-one assignments of some predicted entries to expected entries
\* in which every pair passes the gate
GatedAssignments ==
    UNION { {f \in [D -> 1..Len(ord_expected)] :
                /\ \A i, j \in D : f[i] = f[j] => i = j
                /\ \A i \in D : GateHolds(ord_predicted[i], ord_expected[f[i]])}
            : D \in SUBSET (1..Len(ord_predicted)) }

MaxMatches ==
    CHOOSE n \in 0..Len(ord_predicted) :
        /\ \E f \in GatedAssignments : Cardinality(DOMAIN f) = n
        /\ \A f \in GatedAssignments : Cardinality(DOMAIN f) <= n

C28_OrderIndependent ==
    Reorderable =>
        /\ OrderCounts(ord_permuted_result) = OrderCounts(ord_result)
        /\ OrderCounts(ord_result)[1] = MaxMatches

====
